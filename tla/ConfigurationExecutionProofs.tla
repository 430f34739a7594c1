--------------------- MODULE ConfigurationExecutionProofs ---------------------
(***************************************************************************)
(* What holds of configuration executions for any packages, processes and  *)
(* structures.                                                             *)
(***************************************************************************)
EXTENDS ConfigurationExecution, TLAPS

\* A request owns its confirmation: by the row while it asks, by the intent it
\* committed and by the locks of its structures while it applies the package.
OwnerInv ==
  /\ \A q \in Requests :
       /\ req[q].stage # "idle" => req[q].of \in Confirmations
       /\ req[q].stage = "asked" => status[req[q].of] = "Pending"
       /\ Applying(q) => /\ status[req[q].of] = "Running"
                         /\ \A s \in Locks[req[q].of] : holder[s] = q
  /\ \A p, q \in Requests :
       req[p].stage # "idle" /\ req[q].stage # "idle" /\ req[p].of = req[q].of
         => p = q

\* How far a package is when the request that applies it is at a stage.
Progress(c, stage) ==
  /\ Len(steps[c]) <= Len(Documents[c])
  /\ \A i \in 1..(Len(steps[c]) - 1) : steps[c][i] = "Succeeded" /\ i \in written[c]
  /\ written[c] \subseteq 1..Len(steps[c])
  /\ stage = "between" /\ Len(steps[c]) > 0 =>
       steps[c][Len(steps[c])] = "Succeeded" /\ Len(steps[c]) \in written[c]
  /\ stage # "between" => Len(steps[c]) > 0 /\ steps[c][Len(steps[c])] = "Running"
  /\ stage \in {"announced", "started"} => Len(steps[c]) \notin written[c]

ProgressInv ==
  \A q \in Requests : Applying(q) => Progress(req[q].of, req[q].stage)

PendingInv ==
  \A c \in Confirmations :
    status[c] = "Pending" => steps[c] = <<>> /\ written[c] = {}

\* A document is begun late only if it was checked in time, and then no other.
LateInv ==
  /\ \A c \in Confirmations :
       /\ late[c] <= 1
       /\ standing[c] = Standings => late[c] = 0
  /\ \A q \in Requests : req[q].stage = "started" => late[req[q].of] = 0

Inv ==
  TypeOK /\ OwnerInv /\ ProgressInv /\ PendingInv /\ StepsAreTrue /\ LateInv

-----------------------------------------------------------------------------
\* Nothing is under way in the beginning.
LEMMA InitHolds == Init => Inv
<1> SUFFICES ASSUME Init PROVE Inv
  OBVIOUS
<1>1. TypeOK
  BY PackagesAssumption DEF Init, TypeOK, Idle, Stages
<1>2. OwnerInv
  BY DEF Init, OwnerInv, Idle, Applying
<1>3. ProgressInv
  BY DEF Init, ProgressInv, Idle, Applying
<1>4. PendingInv /\ StepsAreTrue
  BY DEF Init, PendingInv, StepsAreTrue
<1>5. LateInv
  BY DEF Init, LateInv, Idle
<1> QED
  BY <1>1, <1>2, <1>3, <1>4, <1>5 DEF Inv

-----------------------------------------------------------------------------
(* Types.                                                                  *)

\* A request goes on to another stage, or becomes idle.
LEMMA RequestTyped ==
  ASSUME Inv, NEW q \in Requests,
         req' = [req EXCEPT ![q] = Idle] \/ \E stage \in Stages : Go(q, stage)
  PROVE  req' \in [Requests -> [stage : Stages, of : Confirmations \cup {NoOne}]]
<1>1. req \in [Requests -> [stage : Stages, of : Confirmations \cup {NoOne}]]
  BY DEF Inv, TypeOK
<1>2. Idle \in [stage : Stages, of : Confirmations \cup {NoOne}]
  BY DEF Idle, Stages
<1>3. CASE req' = [req EXCEPT ![q] = Idle]
  BY <1>1, <1>2, <1>3
<1>4. CASE \E stage \in Stages : Go(q, stage)
  BY <1>1, <1>4 DEF Go
<1> QED
  BY <1>3, <1>4

LEMMA SeqOfTyped ==
  ASSUME NEW S, NEW d \in Seq(S)
  PROVE  \A i \in DOMAIN d : d[i] \in S
  OBVIOUS

LEMMA DocumentTyped ==
  ASSUME Inv, NEW q \in Requests, Applying(q)
  PROVE  /\ req[q].of \in Confirmations
         /\ Documents[req[q].of] \in Seq([kind : Kinds, of : Structures])
         /\ steps[req[q].of] \in Seq(StepStatuses)
         /\ Len(steps[req[q].of]) \in Nat
         /\ Len(Documents[req[q].of]) \in Nat
         /\ Len(steps[req[q].of]) <= Len(Documents[req[q].of])
         /\ req[q].stage # "between" =>
              /\ At(q) \in DOMAIN Documents[req[q].of]
              /\ Document(q) \in [kind : Kinds, of : Structures]
              /\ Document(q).of \in Locks[req[q].of]
<1>1. req[q].of \in Confirmations
  BY DEF Inv, OwnerInv, Applying
<1>2. /\ Documents[req[q].of] \in Seq([kind : Kinds, of : Structures])
      /\ steps[req[q].of] \in Seq(StepStatuses)
  BY <1>1, PackagesAssumption DEF Inv, TypeOK
<1>3. /\ Len(steps[req[q].of]) \in Nat
      /\ Len(Documents[req[q].of]) \in Nat
      /\ Len(steps[req[q].of]) <= Len(Documents[req[q].of])
  BY <1>2 DEF Inv, ProgressInv, Progress
<1>4. ASSUME req[q].stage # "between"
      PROVE  At(q) \in DOMAIN Documents[req[q].of]
  <2>1. Len(steps[req[q].of]) > 0
    BY <1>4 DEF Inv, ProgressInv, Progress
  <2> QED
    BY <1>2, <1>3, <2>1 DEF At
<1>5. ASSUME req[q].stage # "between"
      PROVE  /\ Document(q) \in [kind : Kinds, of : Structures]
             /\ Document(q).of \in Locks[req[q].of]
  <2> DEFINE d == Documents[req[q].of]
  <2>1. At(q) \in DOMAIN d /\ d \in Seq([kind : Kinds, of : Structures])
    BY <1>2, <1>4, <1>5
  <2>2. \A i \in DOMAIN d : d[i] \in [kind : Kinds, of : Structures]
    BY <1>2, SeqOfTyped
  <2>3. \A i \in DOMAIN d : d[i].of \in Locks[req[q].of]
    BY <1>1, PackagesAssumption
  <2> QED
    BY <2>1, <2>2, <2>3 DEF Document
<1> QED
  BY <1>1, <1>2, <1>3, <1>4, <1>5

\* A step is recorded as begun after those before it.
LEMMA StepAnnounced ==
  ASSUME Inv, NEW q \in Requests, Applying(q),
         steps' = [steps EXCEPT ![req[q].of] = Append(@, "Running")]
  PROVE  LET c == req[q].of
             n == Len(steps[c])
         IN /\ steps' \in [Confirmations -> Seq(StepStatuses)]
            /\ Len(steps'[c]) = n + 1
            /\ steps'[c][n + 1] = "Running"
            /\ \A i \in 1..n : steps'[c][i] = steps[c][i]
            /\ \A b \in Confirmations \ {c} : steps'[b] = steps[b]
<1>1. /\ req[q].of \in Confirmations
      /\ steps[req[q].of] \in Seq(StepStatuses)
      /\ steps \in [Confirmations -> Seq(StepStatuses)]
  BY DocumentTyped DEF Inv, TypeOK
<1>2. steps'[req[q].of] = Append(steps[req[q].of], "Running")
  BY <1>1
<1>3. Append(steps[req[q].of], "Running") \in Seq(StepStatuses)
  BY <1>1 DEF StepStatuses
<1> QED
  BY <1>1, <1>2, <1>3

\* The last step is recorded as what became of it, the others stay.
LEMMA LastRecorded ==
  ASSUME Inv, NEW q \in Requests, Applying(q), req[q].stage # "between",
         NEW s \in StepStatuses, Recorded(req[q].of, s)
  PROVE  LET c == req[q].of
             n == Len(steps[c])
         IN /\ steps' \in [Confirmations -> Seq(StepStatuses)]
            /\ Len(steps'[c]) = n
            /\ steps'[c][n] = s
            /\ \A i \in 1..(n - 1) : steps'[c][i] = steps[c][i]
            /\ \A b \in Confirmations \ {c} : steps'[b] = steps[b]
<1> DEFINE c == req[q].of
           n == Len(steps[c])
           last == [steps[c] EXCEPT ![n] = s]
<1>1. /\ c \in Confirmations
      /\ steps[c] \in Seq(StepStatuses)
      /\ steps \in [Confirmations -> Seq(StepStatuses)]
  BY DocumentTyped DEF Inv, TypeOK
<1>2. n \in Nat /\ n > 0
  BY <1>1 DEF Inv, ProgressInv, Progress
<1>3. /\ last \in Seq(StepStatuses)
      /\ Len(last) = n
      /\ last[n] = s
      /\ \A i \in 1..(n - 1) : last[i] = steps[c][i]
  BY <1>1, <1>2
<1>4. steps' = [steps EXCEPT ![c] = last]
  BY <1>1 DEF Recorded
<1> HIDE DEF last
<1> QED
  BY <1>1, <1>3, <1>4

\* Every step keeps the types.
LEMMA TypesKept ==
  ASSUME Inv, [Next]_vars
  PROVE  TypeOK'
<1> USE DEF Inv
<1>1. ASSUME NEW q \in Requests, NEW c \in Confirmations, Ask(q, c)
      PROVE  TypeOK'
  BY <1>1 DEF Ask, TypeOK, Stages
<1>2. ASSUME NEW q \in Requests, Refuse(q)
      PROVE  TypeOK'
  BY <1>2 DEF Refuse, TypeOK, Stages, Idle
<1>3. ASSUME NEW q \in Requests, Intend(q)
      PROVE  TypeOK'
  BY <1>3 DEF Intend, Go, TypeOK, Stages
<1>4. ASSUME NEW q \in Requests, Announce(q)
      PROVE  TypeOK'
  <2>1. Applying(q)
    BY <1>4 DEF Announce, Applying
  <2>2. steps' \in [Confirmations -> Seq(StepStatuses)]
    BY <1>4, <2>1, StepAnnounced DEF Announce
  <2>3. req' \in [Requests -> [stage : Stages, of : Confirmations \cup {NoOne}]]
    BY <1>4, RequestTyped DEF Announce, Stages
  <2> QED
    BY <1>4, <2>2, <2>3 DEF Announce, AfterCommit, TypeOK
<1>5. ASSUME NEW q \in Requests, Begin(q)
      PROVE  TypeOK'
  BY <1>5 DEF Begin, Go, TypeOK, Stages
<1>6. ASSUME NEW q \in Requests, Write(q), Applying(q), req[q].stage # "between"
      PROVE  /\ written' \in [Confirmations -> SUBSET Nat]
             /\ touched' \in [Structures -> SUBSET (Confirmations \cup {NoOne})]
  <2>1. At(q) \in Nat /\ Document(q).of \in Structures /\ req[q].of \in Confirmations
    BY <1>6, DocumentTyped DEF At
  <2>2. \A c \in Confirmations : written'[c] \in SUBSET Nat
    BY <1>6, <2>1 DEF Write, TypeOK
  <2>3. \A s \in Structures : touched'[s] \in SUBSET (Confirmations \cup {NoOne})
    BY <1>6, <2>1 DEF Write, TypeOK
  <2> QED
    BY <1>6, <2>2, <2>3 DEF Write, TypeOK
<1>7. ASSUME NEW q \in Requests, Insert(q)
      PROVE  TypeOK'
  <2>1. Applying(q) /\ req[q].stage # "between"
    BY <1>7 DEF Insert, Applying
  <2>2. /\ written' \in [Confirmations -> SUBSET Nat]
        /\ touched' \in [Structures -> SUBSET (Confirmations \cup {NoOne})]
    BY <1>6, <1>7, <2>1 DEF Insert, TypeOK
  <2>3. late' \in [Confirmations -> Nat]
    <3>1. late \in [Confirmations -> Nat]
      BY DEF TypeOK
    <3>2. late' = late \/ late' = [late EXCEPT ![req[q].of] = @ + 1]
      BY <1>7 DEF Insert
    <3> QED
      BY ONLY <3>1, <3>2
  <2>4. req' \in [Requests -> [stage : Stages, of : Confirmations \cup {NoOne}]]
    BY <1>7, RequestTyped DEF Insert, Stages
  <2> QED
    BY <1>7, <2>2, <2>3, <2>4 DEF Insert, TypeOK
<1>8. ASSUME NEW q \in Requests, Applying(q), req[q].stage # "between",
             NEW s \in StepStatuses, Recorded(req[q].of, s)
      PROVE  steps' \in [Confirmations -> Seq(StepStatuses)]
  BY <1>8, LastRecorded
<1>9. ASSUME NEW q \in Requests, Record(q)
      PROVE  TypeOK'
  <2>1. Applying(q) /\ req[q].stage # "between"
    BY <1>9 DEF Record, Applying
  <2>2. /\ written' \in [Confirmations -> SUBSET Nat]
        /\ touched' \in [Structures -> SUBSET (Confirmations \cup {NoOne})]
    BY <1>6, <1>9, <2>1 DEF Record
  <2>3. steps' \in [Confirmations -> Seq(StepStatuses)]
    BY <1>8, <1>9, <2>1 DEF Record, StepStatuses
  <2> QED
    BY <1>9, <2>2, <2>3, RequestTyped DEF Record, AfterCommit, TypeOK, Stages
<1>10. ASSUME NEW q \in Requests, Stop(q)
       PROVE  TypeOK'
  <2>1. Applying(q) /\ req[q].stage # "between"
    BY <1>10 DEF Stop, Applying
  <2>2. StoppedAs(q) \in {"Failed", "Unknown"}
    BY DEF StoppedAs
  <2>3. steps' \in [Confirmations -> Seq(StepStatuses)]
    BY <1>8, <1>10, <2>1, <2>2 DEF Stop, StepStatuses
  <2> QED
    BY <1>10, <2>2, <2>3 DEF Stop, Released, TypeOK, Stages, Idle, Results
<1>11. ASSUME NEW q \in Requests, Conclude(q)
       PROVE  TypeOK'
  BY <1>11 DEF Conclude, Released, TypeOK, Stages, Idle, Results
<1>12. ASSUME NEW q \in Requests, Crash(q)
       PROVE  TypeOK'
  BY <1>12 DEF Crash, Released, TypeOK, Stages, Idle
<1>13. ASSUME NEW s \in Structures, Save(s) \/ CreateRecord(s)
       PROVE  TypeOK'
  BY <1>13 DEF Save, CreateRecord, TypeOK
<1>14. ASSUME NEW c \in Confirmations, Withdraw(c)
       PROVE  TypeOK'
  BY <1>14 DEF Withdraw, TypeOK
<1>15. CASE UNCHANGED vars
  BY <1>15 DEF vars, TypeOK
<1> QED
  BY <1>1, <1>2, <1>3, <1>4, <1>5, <1>7, <1>9, <1>10, <1>11, <1>12, <1>13, <1>14,
     <1>15 DEF Next, RequestStep

-----------------------------------------------------------------------------
(* Owners.                                                                 *)

\* A request's own progress takes nothing from the others: it keeps its
\* confirmation, the status the stage stands for, and all locks.
LEMMA OwnProgressKeepsOwners ==
  ASSUME Inv, NEW q \in Requests, Applying(q), NEW stage \in Stages, Go(q, stage),
         stage \in {"between", "announced", "started", "inserted"},
         UNCHANGED <<status, holder>>
  PROVE  OwnerInv'
<1>1. req' = [req EXCEPT ![q] = [@ EXCEPT !.stage = stage]]
  BY DEF Go
<1>2. /\ \A p \in Requests : req'[p].of = req[p].of
      /\ \A p \in Requests \ {q} : req'[p].stage = req[p].stage
      /\ req'[q].stage = stage
  BY <1>1 DEF Inv, TypeOK
<1>3. req[q].stage # "idle" /\ stage # "idle" /\ stage # "asked"
  BY DEF Applying
<1> QED
  BY <1>2, <1>3 DEF Inv, OwnerInv, Applying

\* A request that ends gives up what only it owned.
LEMMA EndKeepsOwners ==
  ASSUME Inv, NEW q \in Requests, req[q].stage # "idle",
         req' = [req EXCEPT ![q] = Idle], holder' = Released(q) \/ holder' = holder,
         \A c \in Confirmations \ {req[q].of} : status'[c] = status[c]
  PROVE  OwnerInv'
<1>1. /\ \A p \in Requests \ {q} : req'[p] = req[p]
      /\ req'[q].stage = "idle"
  BY DEF Inv, TypeOK, Idle
<1>2. \A p \in Requests \ {q} : req[p].stage # "idle" =>
         req[p].of \in Confirmations \ {req[q].of}
  BY DEF Inv, OwnerInv
<1>3. \A s \in Structures : holder[s] # q => holder'[s] = holder[s]
  BY DEF Released
<1>4. ASSUME NEW p \in Requests \ {q}, Applying(p)
      PROVE  \A s \in Locks[req[p].of] : holder'[s] = p
  <2>1. req[p].of \in Confirmations /\ \A s \in Locks[req[p].of] : holder[s] = p
    BY <1>4 DEF Inv, OwnerInv, Applying
  <2>2. Locks[req[p].of] \subseteq Structures
    BY <2>1, PackagesAssumption
  <2> QED
    BY <1>3, <2>1, <2>2
<1>5. \A p \in Requests : Applying(p)' => p # q /\ Applying(p)
  BY <1>1 DEF Applying
<1> QED
  BY <1>1, <1>2, <1>4, <1>5 DEF Inv, OwnerInv, Applying

\* Every step keeps the owners.
LEMMA OwnersKept ==
  ASSUME Inv, [Next]_vars
  PROVE  OwnerInv'
<1>1. ASSUME NEW q \in Requests, NEW c \in Confirmations, Ask(q, c)
      PROVE  OwnerInv'
  <2>1. /\ \A p \in Requests \ {q} : req'[p] = req[p]
        /\ req'[q] = [stage |-> "asked", of |-> c]
        /\ req[q].stage = "idle" /\ status[c] = "Pending"
        /\ UNCHANGED <<status, holder>>
    BY <1>1 DEF Ask, Inv, TypeOK
  <2>2. \A p \in Requests : req[p].stage # "idle" => req[p].of # c
    <3>1. \A p \in Requests : req[p].stage = "asked" => req[p].of # c
      BY <1>1 DEF Ask
    <3>2. \A p \in Requests : Applying(p) => req[p].of # c
      BY <2>1 DEF Inv, OwnerInv
    <3> QED
      BY <3>1, <3>2 DEF Inv, TypeOK, Stages, Applying
  <2> QED
    BY <2>1, <2>2 DEF Inv, OwnerInv, Applying
<1>2. ASSUME NEW q \in Requests, Refuse(q)
      PROVE  OwnerInv'
  BY <1>2, EndKeepsOwners DEF Refuse
<1>3. ASSUME NEW q \in Requests, Intend(q)
      PROVE  OwnerInv'
  <2> DEFINE c == req[q].of
  <2>1. c \in Confirmations /\ req[q].stage = "asked"
    BY <1>3 DEF Intend, Inv, OwnerInv
  <2>2. /\ \A p \in Requests \ {q} : req'[p] = req[p]
        /\ req'[q].stage = "between" /\ req'[q].of = c
    BY <1>3 DEF Intend, Go, Inv, TypeOK
  <2>3. /\ status'[c] = "Running"
        /\ \A b \in Confirmations \ {c} : status'[b] = status[b]
    BY <1>3, <2>1 DEF Intend, Inv, TypeOK
  <2>4. \A p \in Requests \ {q} : req[p].stage # "idle" =>
           req[p].of \in Confirmations \ {c}
    BY <2>1 DEF Inv, OwnerInv
  <2>5. ASSUME NEW p \in Requests \ {q}, Applying(p), NEW s \in Locks[req[p].of]
        PROVE  holder'[s] = p
    <3>1. req[p].of \in Confirmations /\ holder[s] = p
      BY <2>5 DEF Inv, OwnerInv, Applying
    <3>2. s \in Structures
      BY <2>5, <3>1, PackagesAssumption
    <3>3. p # NoOne
      BY PackagesAssumption
    <3>4. s \notin Locks[c]
      BY <1>3, <3>1, <3>3 DEF Intend
    <3>5. holder'[s] = holder[s]
      BY <1>3, <3>2, <3>4 DEF Intend
    <3> QED
      BY <3>1, <3>5
  <2>6. \A s \in Locks[c] : holder'[s] = q
    BY <1>3, <2>1, PackagesAssumption DEF Intend
  <2>7. \A p \in Requests \ {q} : Applying(p)' => Applying(p)
    BY <2>2 DEF Applying
  <2>8. \A p \in Requests : req'[p].stage # "idle" => req'[p].of \in Confirmations
    BY <2>1, <2>2 DEF Inv, OwnerInv
  <2>9. \A p \in Requests : req'[p].stage = "asked" => status'[req'[p].of] = "Pending"
    BY <2>2, <2>3, <2>4 DEF Inv, OwnerInv
  <2>10. \A p \in Requests : Applying(p)' =>
           status'[req'[p].of] = "Running" /\ \A s \in Locks[req'[p].of] : holder'[s] = p
    BY <2>2, <2>3, <2>4, <2>5, <2>6, <2>7 DEF Inv, OwnerInv, Applying
  <2>11. \A p, r \in Requests :
           req'[p].stage # "idle" /\ req'[r].stage # "idle" /\ req'[p].of = req'[r].of
             => p = r
    BY <2>1, <2>2, <2>4 DEF Inv, OwnerInv
  <2> QED
    BY <2>8, <2>9, <2>10, <2>11 DEF OwnerInv, Applying
<1>4. ASSUME NEW q \in Requests,
             Announce(q) \/ Begin(q) \/ Insert(q) \/ Record(q)
      PROVE  OwnerInv'
  <2>1. Applying(q) /\ UNCHANGED <<status, holder>>
    BY <1>4 DEF Announce, Begin, Insert, Record, AfterCommit, Applying
  <2>2. \E stage \in {"between", "announced", "started", "inserted"} : Go(q, stage)
    BY <1>4 DEF Announce, Begin, Insert, Record
  <2> QED
    BY <2>1, <2>2, OwnProgressKeepsOwners DEF Stages
<1>5. ASSUME NEW q \in Requests, Stop(q) \/ Conclude(q) \/ Crash(q)
      PROVE  OwnerInv'
  <2>1. req[q].stage # "idle" /\ req' = [req EXCEPT ![q] = Idle] /\ holder' = Released(q)
    BY <1>5 DEF Stop, Conclude, Crash
  <2>2. \A c \in Confirmations \ {req[q].of} : status'[c] = status[c]
    BY <1>5 DEF Stop, Conclude, Crash, Inv, TypeOK
  <2> QED
    BY <2>1, <2>2, EndKeepsOwners
<1>6. ASSUME UNCHANGED <<status, holder, req>>
      PROVE  OwnerInv'
  BY <1>6 DEF Inv, OwnerInv, Applying
<1>7. ASSUME NEW s \in Structures, Save(s) \/ CreateRecord(s)
      PROVE  OwnerInv'
  BY <1>6, <1>7 DEF Save, CreateRecord
<1>8. ASSUME NEW c \in Confirmations, Withdraw(c)
      PROVE  OwnerInv'
  BY <1>6, <1>8 DEF Withdraw
<1>9. CASE UNCHANGED vars
  BY <1>6, <1>9 DEF vars
<1> QED
  BY <1>1, <1>2, <1>3, <1>4, <1>5, <1>7, <1>8, <1>9 DEF Next, RequestStep

-----------------------------------------------------------------------------
(* Progress and its record.                                                *)

\* What a step may leave to the requests and packages it is not about.
LEMMA OthersProgress ==
  ASSUME Inv, NEW q \in Requests, req[q].stage # "idle",
         \A p \in Requests \ {q} : req'[p] = req[p],
         \A c \in Confirmations \ {req[q].of} :
           steps'[c] = steps[c] /\ written'[c] = written[c],
         Applying(q)' => Progress(req[q].of, req[q].stage)'
  PROVE  ProgressInv'
<1> SUFFICES ASSUME NEW p \in Requests, Applying(p)'
             PROVE  Progress(req[p].of, req[p].stage)'
  BY DEF ProgressInv
<1>1. CASE p = q
  BY <1>1
<1>2. CASE p # q
  <2>1. req'[p] = req[p] /\ Applying(p)
    BY <1>2 DEF Applying
  <2>2. req[p].of \in Confirmations \ {req[q].of}
    BY <1>2, <2>1 DEF Inv, OwnerInv, Applying
  <2>3. Progress(req[p].of, req[p].stage)
    BY <2>1 DEF Inv, ProgressInv
  <2> QED
    BY <2>1, <2>2, <2>3 DEF Progress
<1> QED
  BY <1>1, <1>2

\* StepsAreTrue and PendingInv, of one confirmation.
Tells(c) ==
  /\ \A i \in DOMAIN steps[c] :
       /\ steps[c][i] = "Succeeded" => i \in written[c]
       /\ steps[c][i] = "Failed" => i \notin written[c]
  /\ written[c] \subseteq DOMAIN steps[c]
  /\ status[c] = "Succeeded" => written[c] = DOMAIN Documents[c]
  /\ status[c] = "Failed" => written[c] = {}
  /\ status[c] = "Partial" => written[c] # {}
  /\ status[c] = "Pending" => steps[c] = <<>> /\ written[c] = {}

RecordInv == ProgressInv /\ PendingInv /\ StepsAreTrue

LEMMA TellingIsRecord == (\A c \in Confirmations : Tells(c)) <=> PendingInv /\ StepsAreTrue
  BY DEF Tells, PendingInv, StepsAreTrue

\* A step that writes and records nothing, and takes no request further.
LEMMA NoneGoesOn ==
  ASSUME Inv, UNCHANGED <<status, steps, written>>,
         \A p \in Requests : Applying(p)' => Applying(p) /\ req'[p] = req[p]
  PROVE  RecordInv'
<1>1. ASSUME NEW p \in Requests, Applying(p)'
      PROVE  Progress(req[p].of, req[p].stage)'
  <2>1. Applying(p) /\ req'[p] = req[p]
    BY <1>1
  <2>2. Progress(req[p].of, req[p].stage)
    BY <2>1 DEF Inv, ProgressInv
  <2> QED
    BY <2>1, <2>2 DEF Progress
<1>2. PendingInv' /\ StepsAreTrue'
  BY DEF Inv, PendingInv, StepsAreTrue
<1> QED
  BY <1>1, <1>2 DEF RecordInv, ProgressInv

LEMMA NothingRecorded ==
  ASSUME Inv, UNCHANGED <<status, steps, written, req>>
  PROVE  RecordInv'
<1>1. \A p \in Requests : Applying(p)' => Applying(p) /\ req'[p] = req[p]
  BY DEF Applying
<1> QED
  BY <1>1, NoneGoesOn

\* A step of one request and its confirmation.
LEMMA OwnRecord ==
  ASSUME Inv, NEW q \in Requests, NEW c \in Confirmations,
         req[q].stage # "idle", req[q].of = c,
         \A p \in Requests \ {q} : req'[p] = req[p],
         \A b \in Confirmations \ {c} :
           status'[b] = status[b] /\ steps'[b] = steps[b] /\ written'[b] = written[b],
         Applying(q)' => Progress(req[q].of, req[q].stage)',
         Tells(c)'
  PROVE  RecordInv'
<1>1. ProgressInv'
  BY OthersProgress
<1>2. \A b \in Confirmations : Tells(b)
  BY TellingIsRecord DEF Inv
<1>3. ASSUME NEW b \in Confirmations
      PROVE  Tells(b)'
  <2>1. CASE b = c
    BY <2>1
  <2>2. CASE b # c
    BY <1>2, <2>2 DEF Tells
  <2> QED
    BY <2>1, <2>2
<1>4. PendingInv' /\ StepsAreTrue'
  BY <1>3 DEF Tells, PendingInv, StepsAreTrue
<1> QED
  BY <1>1, <1>4 DEF RecordInv

\* Where a request that applies a package stands.
LEMMA Standing ==
  ASSUME Inv, NEW q \in Requests, NEW c, req[q].of = c, Applying(q)
  PROVE  /\ req[q].stage # "idle"
         /\ status[c] = "Running"
         /\ Progress(c, req[q].stage)
         /\ Tells(c)
         /\ DOMAIN steps[c] = 1..Len(steps[c])
         /\ DOMAIN Documents[c] = 1..Len(Documents[c])
<1>1. Progress(c, req[q].stage) /\ status[c] = "Running" /\ req[q].stage # "idle"
  BY DEF Inv, ProgressInv, OwnerInv, Applying
<1>2. Tells(c)
  BY DocumentTyped, TellingIsRecord DEF Inv
<1> QED
  BY <1>1, <1>2, DocumentTyped

LEMMA IntendRecords ==
  ASSUME Inv, NEW q \in Requests, NEW c \in Confirmations, req[q].of = c, Intend(q)
  PROVE  RecordInv'
<1>1. c \in Confirmations /\ status[c] = "Pending" /\ req[q].stage = "asked"
  BY DEF Intend, Inv, OwnerInv
<1>2. steps[c] = <<>> /\ written[c] = {} /\ Documents[c] \in Seq([kind : Kinds, of : Structures])
  BY <1>1, PackagesAssumption DEF Inv, PendingInv
<1>3. /\ \A p \in Requests \ {q} : req'[p] = req[p]
      /\ req'[q].stage = "between" /\ req'[q].of = c
  BY DEF Intend, Go, Inv, TypeOK
<1>4. /\ status'[c] = "Running" /\ steps' = steps /\ written' = written
      /\ \A b \in Confirmations \ {c} : status'[b] = status[b]
  BY <1>1 DEF Intend, Inv, TypeOK
<1>5. Progress(c, "between")'
  BY <1>2, <1>3, <1>4 DEF Progress
<1>6. Tells(c)'
  BY <1>2, <1>4 DEF Tells
<1> QED
  BY <1>1, <1>3, <1>4, <1>5, <1>6, OwnRecord

\* What the next stage of a request is to its row.
LEMMA OwnStage ==
  ASSUME Inv, NEW q \in Requests, NEW stage, Go(q, stage)
  PROVE  /\ \A p \in Requests \ {q} : req'[p] = req[p]
         /\ req'[q].stage = stage /\ req'[q].of = req[q].of
  BY DEF Go, Inv, TypeOK

LEMMA AnnounceRecords ==
  ASSUME Inv, NEW q \in Requests, NEW c \in Confirmations, req[q].of = c, Announce(q)
  PROVE  RecordInv'
<1> DEFINE n == Len(steps[c])
<1>1. Applying(q) /\ req[q].stage = "between" /\ n < Len(Documents[c])
  BY DEF Announce, Applying
<1>now. /\ req[q].stage # "idle" /\ status[c] = "Running"
       /\ Progress(c, "between") /\ Tells(c)
       /\ DOMAIN steps[c] = 1..Len(steps[c])
       /\ DOMAIN Documents[c] = 1..Len(Documents[c])
  BY <1>1, Standing
<1>2. /\ req'[q].stage = "announced" /\ req'[q].of = c
      /\ \A p \in Requests \ {q} : req'[p] = req[p]
  BY OwnStage DEF Announce
<1>3. /\ steps' \in [Confirmations -> Seq(StepStatuses)]
      /\ Len(steps'[c]) = n + 1
      /\ steps'[c][n + 1] = "Running"
      /\ \A i \in 1..n : steps'[c][i] = steps[c][i]
      /\ \A b \in Confirmations \ {c} : steps'[b] = steps[b]
  BY <1>1, StepAnnounced DEF Announce
<1>4. c \in Confirmations /\ n \in Nat /\ Len(Documents[c]) \in Nat
  BY <1>1, DocumentTyped
<1>5. DOMAIN steps'[c] = 1..(n + 1)
  BY <1>3, <1>4
<1>6. written' = written /\ status' = status
  BY DEF Announce
<1>7. Progress(c, "announced")'
  <2>1. \A i \in 1..n : steps[c][i] = "Succeeded" /\ i \in written[c]
    BY <1>4, <1>now DEF Progress
  <2>2. \A i \in 1..n : steps'[c][i] = "Succeeded" /\ i \in written[c]
    BY <1>3, <2>1
  <2>3. written[c] \subseteq 1..n
    BY <1>now DEF Progress
  <2>4. written[c] \subseteq 1..(n + 1) /\ (n + 1) \notin written[c]
    BY <1>4, <2>3
  <2>5. n + 1 <= Len(Documents[c]) /\ n + 1 > 0 /\ (n + 1) - 1 = n
    BY <1>1, <1>4
  <2> QED
    BY <1>3, <1>6, <2>2, <2>4, <2>5 DEF Progress
<1>8. Tells(c)'
  <2>1. ASSUME NEW i \in DOMAIN steps'[c]
        PROVE  /\ steps'[c][i] = "Succeeded" => i \in written[c]
               /\ steps'[c][i] = "Failed" => i \notin written[c]
    <3>1. CASE i = n + 1
      BY <1>3, <3>1
    <3>2. CASE i # n + 1
      <4>1. i \in 1..n /\ i \in DOMAIN steps[c] /\ steps'[c][i] = steps[c][i]
        BY <1>3, <1>4, <1>5, <1>now, <3>2
      <4> QED
        BY <1>now, <4>1 DEF Tells
    <3> QED
      BY <3>1, <3>2
  <2>2. written[c] \subseteq DOMAIN steps'[c]
    BY <1>4, <1>5, <1>now DEF Progress
  <2> QED
    BY <1>6, <1>now, <2>1, <2>2 DEF Tells
<1> QED
  BY <1>1, <1>2, <1>3, <1>6, <1>7, <1>8, <1>now, OwnRecord

LEMMA BeginRecords ==
  ASSUME Inv, NEW q \in Requests, NEW c \in Confirmations, req[q].of = c, Begin(q)
  PROVE  RecordInv'
<1>1. Applying(q) /\ req[q].stage = "announced"
  BY DEF Begin, Applying
<1>2. /\ req'[q].stage = "started" /\ req'[q].of = c
      /\ \A p \in Requests \ {q} : req'[p] = req[p]
  BY OwnStage DEF Begin
<1>3. UNCHANGED <<status, steps, written>>
  BY DEF Begin
<1>now. /\ req[q].stage # "idle"
       /\ Progress(c, "announced") /\ Tells(c)
  BY <1>1, Standing
<1>4. Progress(c, "started")'
  BY <1>3, <1>now DEF Progress
<1>5. Tells(c)'
  BY <1>3, <1>now DEF Tells
<1> QED
  BY <1>1, <1>2, <1>3, <1>4, <1>5, <1>now, OwnRecord

\* The document written is the one the last step announced.
LEMMA WritesLast ==
  ASSUME Inv, NEW q \in Requests, NEW c, req[q].of = c, Applying(q), Write(q)
  PROVE  /\ written'[c] = written[c] \cup {Len(steps[c])}
         /\ \A b \in Confirmations \ {c} : written'[b] = written[b]
  BY DocumentTyped DEF Write, At, Inv, TypeOK

LEMMA InsertRecords ==
  ASSUME Inv, NEW q \in Requests, NEW c \in Confirmations, req[q].of = c, Insert(q)
  PROVE  RecordInv'
<1> DEFINE n == Len(steps[c])
<1>1. Applying(q) /\ req[q].stage = "started"
  BY DEF Insert, Applying
<1>now. /\ req[q].stage # "idle" /\ status[c] = "Running"
       /\ Progress(c, "started") /\ Tells(c)
       /\ DOMAIN steps[c] = 1..Len(steps[c])
       /\ DOMAIN Documents[c] = 1..Len(Documents[c])
  BY <1>1, Standing
<1>2. /\ req'[q].stage = "inserted" /\ req'[q].of = c
      /\ \A p \in Requests \ {q} : req'[p] = req[p]
  BY OwnStage DEF Insert
<1>3. /\ written'[c] = written[c] \/ written'[c] = written[c] \cup {n}
      /\ \A b \in Confirmations \ {c} : written'[b] = written[b]
  BY <1>1, WritesLast DEF Insert
<1>4. UNCHANGED <<status, steps>>
  BY DEF Insert
<1>5. c \in Confirmations /\ n \in Nat /\ n > 0 /\ steps[c][n] = "Running"
  BY <1>1, <1>now, DocumentTyped DEF Progress
<1>6. Progress(c, "inserted")'
  <2>1. \A i \in 1..(n - 1) : steps[c][i] = "Succeeded" /\ i \in written'[c]
    BY <1>3, <1>now DEF Progress
  <2>2. written'[c] \subseteq 1..n /\ n <= Len(Documents[c])
    BY <1>3, <1>5, <1>now DEF Progress
  <2>3. steps'[c] = steps[c]
    BY <1>4
  <2> QED
    BY <1>5, <2>1, <2>2, <2>3 DEF Progress
<1>7. Tells(c)'
  BY <1>1, <1>3, <1>4, <1>5, <1>now DEF Tells
<1> QED
  BY <1>1, <1>2, <1>3, <1>4, <1>6, <1>7, <1>now, OwnRecord

LEMMA RecordRecords ==
  ASSUME Inv, NEW q \in Requests, NEW c \in Confirmations, req[q].of = c, Record(q)
  PROVE  RecordInv'
<1> DEFINE n == Len(steps[c])
<1>1. Applying(q) /\ req[q].stage = "inserted"
  BY DEF Record, Applying
<1>now. /\ req[q].stage # "idle" /\ status[c] = "Running"
       /\ Progress(c, "inserted") /\ Tells(c)
       /\ DOMAIN steps[c] = 1..Len(steps[c])
       /\ DOMAIN Documents[c] = 1..Len(Documents[c])
  BY <1>1, Standing
<1>2. /\ req'[q].stage = "between" /\ req'[q].of = c
      /\ \A p \in Requests \ {q} : req'[p] = req[p]
  BY OwnStage DEF Record
<1>3. /\ written'[c] = written[c] \cup {n}
      /\ \A b \in Confirmations \ {c} : written'[b] = written[b]
  BY <1>1, WritesLast DEF Record
<1>4. /\ Len(steps'[c]) = n
      /\ steps'[c][n] = "Succeeded"
      /\ \A i \in 1..(n - 1) : steps'[c][i] = steps[c][i]
      /\ \A b \in Confirmations \ {c} : steps'[b] = steps[b]
      /\ steps' \in [Confirmations -> Seq(StepStatuses)]
  BY <1>1, LastRecorded DEF Record, StepStatuses
<1>5. c \in Confirmations /\ n \in Nat /\ n > 0 /\ status' = status
  BY <1>1, <1>now, DocumentTyped DEF Progress, Record
<1>6. DOMAIN steps'[c] = 1..n
  BY <1>4, <1>5
<1>7. Progress(c, "between")'
  <2>1. \A i \in 1..(n - 1) : steps'[c][i] = "Succeeded" /\ i \in written'[c]
    BY <1>3, <1>4, <1>now DEF Progress
  <2>2. written'[c] \subseteq 1..n /\ n <= Len(Documents[c])
    BY <1>3, <1>5, <1>now DEF Progress
  <2> QED
    BY <1>3, <1>4, <2>1, <2>2 DEF Progress
<1>8. Tells(c)'
  BY <1>1, <1>3, <1>4, <1>5, <1>6, <1>now DEF Tells, Progress
<1> QED
  BY <1>1, <1>2, <1>3, <1>4, <1>5, <1>7, <1>8, <1>now, OwnRecord

\* A request that ends leaves the others' rows as they are.
LEMMA OwnEnd ==
  ASSUME Inv, NEW q \in Requests, req' = [req EXCEPT ![q] = Idle]
  PROVE  (\A p \in Requests \ {q} : req'[p] = req[p]) /\ ~ Applying(q)'
  BY DEF Inv, TypeOK, Idle, Applying

LEMMA StopRecords ==
  ASSUME Inv, NEW q \in Requests, NEW c \in Confirmations, req[q].of = c, Stop(q)
  PROVE  RecordInv'
<1> DEFINE n == Len(steps[c])
           some == \E i \in DOMAIN steps[c] : steps[c][i] = "Succeeded"
<1>1. Applying(q) /\ req[q].stage \in {"announced", "started", "inserted"}
  BY DEF Stop, Applying
<1>now. /\ req[q].stage # "idle" /\ status[c] = "Running"
       /\ Progress(c, req[q].stage) /\ Tells(c)
       /\ DOMAIN steps[c] = 1..Len(steps[c])
       /\ DOMAIN Documents[c] = 1..Len(Documents[c])
  BY <1>1, Standing
<1>2. StoppedAs(q) \in {"Failed", "Unknown"} /\ written' = written
  BY DEF StoppedAs, Stop
<1>3. /\ Len(steps'[c]) = n
      /\ steps'[c][n] = StoppedAs(q)
      /\ \A i \in 1..(n - 1) : steps'[c][i] = steps[c][i]
      /\ \A b \in Confirmations \ {c} : steps'[b] = steps[b]
      /\ steps' \in [Confirmations -> Seq(StepStatuses)]
  BY <1>1, <1>2, LastRecorded DEF Stop, StepStatuses
<1>4. /\ c \in Confirmations /\ n \in Nat /\ n > 0
      /\ steps[c][n] = "Running" /\ DOMAIN steps[c] = 1..n
  BY <1>1, <1>now, DocumentTyped DEF Progress
<1>5. DOMAIN steps'[c] = 1..n
  BY <1>3, <1>4
<1>6. /\ status'[c] = IF some THEN "Partial" ELSE StoppedAs(q)
      /\ \A b \in Confirmations \ {c} : status'[b] = status[b]
  BY <1>4 DEF Stop, Inv, TypeOK
<1>7. StoppedAs(q) = "Failed" => n \notin written[c]
  BY <1>1, <1>now DEF StoppedAs, Progress
<1>8. some => written[c] # {}
  BY <1>1, <1>now DEF Tells
<1>9. ~ some => written[c] \subseteq {n}
  <2>1. \A i \in 1..(n - 1) : steps[c][i] = "Succeeded"
    BY <1>now DEF Progress
  <2>2. n # 1 => 1 \in 1..(n - 1) /\ 1 \in DOMAIN steps[c]
    <3> HIDE DEF n
    <3> QED
      BY <1>4
  <2>3. ~ some => n = 1
    BY <2>1, <2>2
  <2>4. written[c] \subseteq 1..n
    BY <1>now DEF Progress
  <2>5. n = 1 => 1..n = {n}
    OBVIOUS
  <2> HIDE DEF some, n
  <2> QED
    BY <2>3, <2>4, <2>5
<1>10. Tells(c)'
  <2>1. ASSUME NEW i \in 1..n
        PROVE  /\ steps'[c][i] = "Succeeded" => i \in written[c]
               /\ steps'[c][i] = "Failed" => i \notin written[c]
    <3>1. CASE i = n
      BY <1>2, <1>3, <1>7, <3>1
    <3>2. CASE i # n
      <4>1. i \in 1..(n - 1)
        BY <1>4, <3>2
      <4>2. steps[c][i] = "Succeeded" /\ i \in written[c]
        BY <1>now, <4>1 DEF Progress
      <4> QED
        BY <1>3, <4>1, <4>2
    <3> QED
      BY <3>1, <3>2
  <2>2. written[c] \subseteq 1..n
    BY <1>1, <1>now DEF Progress
  <2>3. status'[c] = "Failed" => written[c] = {}
    BY <1>2, <1>6, <1>7, <1>9
  <2>4. /\ status'[c] = "Partial" => written[c] # {}
        /\ status'[c] # "Pending" /\ status'[c] # "Succeeded"
    BY <1>2, <1>6, <1>8
  <2>5. /\ written' = written /\ DOMAIN steps'[c] = 1..n
        /\ steps'[c] # <<>> \/ status'[c] # "Pending"
    BY <1>2, <1>5, <2>4
  <2>6. /\ \A i \in DOMAIN steps'[c] :
             /\ steps'[c][i] = "Succeeded" => i \in written'[c]
             /\ steps'[c][i] = "Failed" => i \notin written'[c]
        /\ written'[c] \subseteq DOMAIN steps'[c]
    BY <2>1, <2>2, <2>5
  <2>7. /\ status'[c] = "Failed" => written'[c] = {}
        /\ status'[c] = "Partial" => written'[c] # {}
        /\ status'[c] # "Pending" /\ status'[c] # "Succeeded"
    BY <2>3, <2>4, <2>5
  <2> QED
    BY <2>6, <2>7 DEF Tells
<1>11. (\A p \in Requests \ {q} : req'[p] = req[p]) /\ ~ Applying(q)'
  BY OwnEnd DEF Stop
<1> HIDE DEF some
<1> QED
  BY <1>1, <1>2, <1>3, <1>6, <1>10, <1>11, <1>now, OwnRecord

LEMMA ConcludeRecords ==
  ASSUME Inv, NEW q \in Requests, NEW c \in Confirmations, req[q].of = c, Conclude(q)
  PROVE  RecordInv'
<1> DEFINE n == Len(steps[c])
<1>1. Applying(q) /\ req[q].stage = "between" /\ n = Len(Documents[c])
  BY DEF Conclude, Applying
<1>now. /\ req[q].stage # "idle" /\ status[c] = "Running"
       /\ Progress(c, "between") /\ Tells(c)
       /\ DOMAIN steps[c] = 1..Len(steps[c])
       /\ DOMAIN Documents[c] = 1..Len(Documents[c])
  BY <1>1, Standing
<1>2. c \in Confirmations /\ n \in Nat /\ UNCHANGED <<steps, written>>
  BY <1>1, DocumentTyped DEF Conclude
<1>3. written[c] = 1..n
  <2>1. written[c] \subseteq 1..n
    BY <1>now DEF Progress
  <2>2. ASSUME NEW i \in 1..n
        PROVE  i \in written[c]
    <3>1. CASE i = n
      BY <1>2, <1>now, <3>1 DEF Progress
    <3>2. CASE i # n
      BY <1>2, <1>now, <3>2 DEF Progress
    <3> QED
      BY <3>1, <3>2
  <2> QED
    BY <2>1, <2>2
<1>4. /\ status'[c] = "Succeeded"
      /\ \A b \in Confirmations \ {c} : status'[b] = status[b]
  BY <1>2 DEF Conclude, Inv, TypeOK
<1>5. Tells(c)'
  BY <1>1, <1>2, <1>3, <1>4, <1>now DEF Tells
<1>6. (\A p \in Requests \ {q} : req'[p] = req[p]) /\ ~ Applying(q)'
  BY OwnEnd DEF Conclude
<1> QED
  BY <1>1, <1>2, <1>4, <1>5, <1>6, <1>now, OwnRecord

\* Every step keeps progress and record together.
LEMMA RecordKept ==
  ASSUME Inv, [Next]_vars
  PROVE  RecordInv'
<1>1. ASSUME NEW q \in Requests, NEW c \in Confirmations, Ask(q, c)
      PROVE  RecordInv'
  <2>1. UNCHANGED <<status, steps, written>>
    BY <1>1 DEF Ask
  <2>2. \A p \in Requests : Applying(p)' => Applying(p) /\ req'[p] = req[p]
    BY <1>1 DEF Ask, Applying, Inv, TypeOK
  <2> QED
    BY <2>1, <2>2, NoneGoesOn
<1>2. ASSUME NEW q \in Requests, Refuse(q) \/ Crash(q)
      PROVE  RecordInv'
  <2>1. UNCHANGED <<status, steps, written>> /\ req' = [req EXCEPT ![q] = Idle]
    BY <1>2 DEF Refuse, Crash
  <2>2. \A p \in Requests : Applying(p)' => Applying(p) /\ req'[p] = req[p]
    BY <2>1, OwnEnd DEF Applying
  <2> QED
    BY <2>1, <2>2, NoneGoesOn
<1>3. ASSUME NEW s \in Structures, Save(s) \/ CreateRecord(s)
      PROVE  RecordInv'
  BY <1>3, NothingRecorded DEF Save, CreateRecord
<1>4. ASSUME NEW c \in Confirmations, Withdraw(c)
      PROVE  RecordInv'
  BY <1>4, NothingRecorded DEF Withdraw
<1>5. CASE UNCHANGED vars
  BY <1>5, NothingRecorded DEF vars
<1>6. ASSUME NEW q \in Requests,
             Intend(q) \/ Announce(q) \/ Begin(q) \/ Insert(q) \/ Record(q) \/ Stop(q)
               \/ Conclude(q)
      PROVE  RecordInv'
  <2>1. req[q].stage # "idle"
    BY <1>6 DEF Intend, Announce, Begin, Insert, Record, Stop, Conclude
  <2>2. PICK c \in Confirmations : req[q].of = c
    BY <2>1 DEF Inv, OwnerInv
  <2> QED
    BY <1>6, <2>2, IntendRecords, AnnounceRecords, BeginRecords, InsertRecords,
       RecordRecords, StopRecords, ConcludeRecords
<1> QED
  BY <1>1, <1>2, <1>3, <1>4, <1>5, <1>6 DEF Next, RequestStep

-----------------------------------------------------------------------------
(* Late documents.                                                         *)

\* A document is begun late only by the request that was checked in time, and
\* its next check fails: nothing brings back what was withdrawn.
LEMMA LateKept ==
  ASSUME Inv, [Next]_vars
  PROVE  LateInv'
<1>1. ASSUME UNCHANGED <<late, standing>>,
             \A q \in Requests : req'[q].stage = "started" => req'[q] = req[q]
      PROVE  LateInv'
  BY <1>1 DEF Inv, LateInv
<1>2. ASSUME NEW q \in Requests,
             (\E c \in Confirmations : Ask(q, c)) \/ Refuse(q) \/ Intend(q) \/ Announce(q)
               \/ Record(q) \/ Stop(q) \/ Conclude(q) \/ Crash(q)
      PROVE  LateInv'
  <2>1. UNCHANGED <<late, standing>>
    BY <1>2 DEF Ask, Refuse, Intend, Announce, Record, Stop, Conclude, Crash
  <2>2. req'[q].stage # "started" /\ \A p \in Requests \ {q} : req'[p] = req[p]
    BY <1>2 DEF Ask, Refuse, Intend, Announce, Record, Stop, Conclude, Crash, Go, Idle,
                Inv, TypeOK
  <2> QED
    BY <1>1, <2>1, <2>2
<1>3. ASSUME NEW q \in Requests, Begin(q)
      PROVE  LateInv'
  <2>1. UNCHANGED <<late, standing>> /\ req'[q].of = req[q].of
        /\ \A p \in Requests \ {q} : req'[p] = req[p]
    BY <1>3, OwnStage DEF Begin
  <2>2. req[q].of \in Confirmations /\ standing[req[q].of] = Standings
    BY <1>3 DEF Begin, StillStands, Inv, OwnerInv
  <2> QED
    BY <2>1, <2>2 DEF Inv, LateInv
<1>4. ASSUME NEW q \in Requests, Insert(q)
      PROVE  LateInv'
  <2>1. req[q].stage = "started" /\ req[q].of \in Confirmations /\ late[req[q].of] = 0
    BY <1>4 DEF Insert, Inv, OwnerInv, LateInv
  <2>2. /\ standing' = standing
        /\ late' = IF standing[req[q].of] = Standings THEN late
                   ELSE [late EXCEPT ![req[q].of] = @ + 1]
    BY <1>4 DEF Insert
  <2>3. req'[q].stage = "inserted" /\ \A p \in Requests \ {q} : req'[p] = req[p]
    BY <1>4, OwnStage DEF Insert
  <2>4. \A p \in Requests \ {q} : req[p].stage = "started" => req[p].of # req[q].of
    BY <2>1 DEF Inv, OwnerInv
  <2>5. \A b \in Confirmations \ {req[q].of} : late'[b] = late[b]
    BY <2>1, <2>2 DEF Inv, TypeOK
  <2>6. /\ late'[req[q].of] <= 1
        /\ standing[req[q].of] = Standings => late'[req[q].of] = 0
    BY <2>1, <2>2 DEF Inv, TypeOK
  <2>7. \A p \in Requests : req[p].stage = "started" => req[p].of \in Confirmations
    BY DEF Inv, OwnerInv
  <2>8. \A b \in Confirmations : late'[b] <= 1 /\ (standing'[b] = Standings => late'[b] = 0)
    BY <2>2, <2>5, <2>6 DEF Inv, LateInv
  <2>9. \A p \in Requests : req'[p].stage = "started" => late'[req'[p].of] = 0
    BY <2>3, <2>4, <2>5, <2>7 DEF Inv, LateInv
  <2> QED
    BY <2>8, <2>9 DEF LateInv
<1>5. ASSUME NEW s \in Structures, Save(s) \/ CreateRecord(s)
      PROVE  LateInv'
  BY <1>1, <1>5 DEF Save, CreateRecord
<1>6. ASSUME NEW c \in Confirmations, Withdraw(c)
      PROVE  LateInv'
  <2>1. UNCHANGED <<late, req>>
    BY <1>6 DEF Withdraw
  <2>2. \A b \in Confirmations : standing'[b] = Standings => standing[b] = Standings
    BY <1>6 DEF Withdraw, Inv, TypeOK
  <2> QED
    BY <2>1, <2>2 DEF Inv, LateInv
<1>7. CASE UNCHANGED vars
  BY <1>1, <1>7 DEF vars
<1> QED
  BY <1>2, <1>3, <1>4, <1>5, <1>6, <1>7 DEF Next, RequestStep

-----------------------------------------------------------------------------
(* The results.                                                            *)

\* The inductive invariant.
LEMMA InvHolds == Spec => []Inv
<1>1. Inv /\ [Next]_vars => Inv'
  BY TypesKept, OwnersKept, RecordKept, LateKept DEF Inv, RecordInv
<1> QED
  BY InitHolds, <1>1, PTL DEF Spec

\* Type correctness, for any packages, processes and structures.
THEOREM TypeCorrect == Spec => []TypeOK
<1>1. Inv => TypeOK
  BY DEF Inv
<1> QED
  BY InvHolds, <1>1, PTL

\* The record of an execution tells what became of its package, wherever the
\* process died and whatever DDL made durable before its step did.
THEOREM RecordsTrue == Spec => []StepsAreTrue
<1>1. Inv => StepsAreTrue
  BY DEF Inv
<1> QED
  BY InvHolds, <1>1, PTL

\* Whatever is withdrawn, at most one document is begun after it.
THEOREM WithdrawalStops == Spec => []StopsWhenWithdrawn
<1>1. Inv => StopsWhenWithdrawn
  BY DEF Inv, LateInv, StopsWhenWithdrawn
<1> QED
  BY InvHolds, <1>1, PTL

\* No step takes a structure from the request that applies a package to it.
LEMMA StepKeepsStructures ==
  ASSUME Inv, [Next]_vars, NEW q \in Requests, Applying(q), NEW s \in Locks[req[q].of]
  PROVE  /\ touched'[s] \subseteq touched[s] \cup {req[q].of}
         /\ s \in records' => s \in records
<1>1. /\ req[q].of \in Confirmations /\ holder[s] = q /\ q # NoOne
      /\ s \in Structures
  BY PackagesAssumption DEF Inv, OwnerInv, Applying
<1>2. ASSUME NEW p \in Requests, Write(p), Applying(p), req[p].stage # "between"
      PROVE  touched'[s] \subseteq touched[s] \cup {req[q].of}
  <2>1. Document(p).of \in Locks[req[p].of] /\ Document(p).of \in Structures
    BY <1>2, DocumentTyped
  <2>2. Document(p).of = s => p = q
    BY <1>1, <1>2, <2>1 DEF Inv, OwnerInv
  <2>3. touched' = [touched EXCEPT ![Document(p).of] = @ \cup {req[p].of}]
    BY <1>2 DEF Write
  <2>4. \/ touched'[s] = touched[s]
        \/ Document(p).of = s /\ touched'[s] = touched[s] \cup {req[p].of}
    BY <1>1, <2>1, <2>3 DEF Inv, TypeOK
  <2> QED
    BY <2>2, <2>4
<1>3. ASSUME NEW p \in Requests, RequestStep(p)
      PROVE  touched'[s] \subseteq touched[s] \cup {req[q].of} /\ records' = records
  <2>1. CASE Insert(p) \/ Record(p)
    BY <1>2, <2>1 DEF Insert, Record, Applying
  <2>2. CASE ~ (Insert(p) \/ Record(p))
    BY <1>3, <2>2 DEF RequestStep, Ask, Refuse, Intend, Announce, Begin, Stop, Conclude, Crash
  <2> QED
    BY <2>1, <2>2
<1>4. ASSUME NEW t \in Structures, Save(t)
      PROVE  touched'[s] = touched[s] /\ records' = records
  BY <1>1, <1>4 DEF Save, Inv, TypeOK
<1>5. ASSUME NEW t \in Structures, CreateRecord(t)
      PROVE  touched'[s] = touched[s] /\ (s \in records' => s \in records)
  BY <1>1, <1>5 DEF CreateRecord
<1>6. ASSUME NEW c \in Confirmations, Withdraw(c)
      PROVE  touched' = touched /\ records' = records
  BY <1>6 DEF Withdraw
<1>7. CASE UNCHANGED vars
  BY <1>7 DEF vars
<1> QED
  BY <1>3, <1>4, <1>5, <1>6, <1>7 DEF Next

\* While a package is applied its structures are its own, whoever else saves,
\* creates records or applies another package, and although every one of its
\* steps commits.
THEOREM StructuresKept == Spec => StructuresStand
<1>1. Inv /\ [Next]_vars =>
        [\A q \in Requests : Applying(q) =>
           \A s \in Locks[req[q].of] :
             /\ touched'[s] \subseteq touched[s] \cup {req[q].of}
             /\ s \in records' => s \in records]_vars
  BY StepKeepsStructures
<1> QED
  BY InvHolds, <1>1, PTL DEF Spec, StructuresStand
=============================================================================
