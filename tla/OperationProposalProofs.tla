------------------------ MODULE OperationProposalProofs ------------------------
(***************************************************************************)
(* What holds of operation proposals for any proposals, runs, documents    *)
(* and confirm requests.                                                   *)
(***************************************************************************)
EXTENDS OperationProposal, FiniteSetTheorems, TLAPS

\* A proposal is confirmed by one request.
OneRow ==
  \A b, c \in Requests :
    req[b].stage # "new" /\ req[c].stage # "new" /\ req[b].of = req[c].of => b = c

\* What a request's stage says of its execution record and its transaction.
StageOf(c) ==
  /\ req[c].stage = "new" <=> req[c].row = "None"
  /\ req[c].stage = "new" => ~ req[c].wrote
  /\ req[c].stage # "new" => req[c].of \in Proposals /\ status[req[c].of] # "None"
  /\ req[c].stage \in {"intent", "checked", "saved", "failing"} => req[c].row = "Running"
  /\ req[c].wrote <=> req[c].stage = "saved" /\ kind[req[c].of] # "fill"
  /\ req[c].stage = "failing" => req[c].result # "None"

\* The write is durable when, and only when, the record says so.
AppliedInv ==
  \A p \in Proposals :
    /\ applied[p] \in {0, 1}
    /\ applied[p] = 1 <=> \E c \in Rows(p) : req[c].row = "Succeeded"

\* An answer is "Unknown", or the record's last word.
ToldInv ==
  \A p \in Proposals : \A t \in told[p] :
    t = "Unknown" \/ \E c \in Rows(p) : req[c].stage = "over" /\ req[c].row = t

\* The document a transaction saved stays locked, on the version confirmed.
LockedInv ==
  /\ \A c \in Requests :
       req[c].stage = "saved" => version[Target[req[c].of]] = frozen[req[c].of]
                                   \/ kind[req[c].of] = "create"
  /\ \A b, c \in Requests :
       /\ req[b].stage = "saved" /\ kind[req[b].of] # "create"
       /\ req[c].stage = "saved" /\ kind[req[c].of] # "create"
       /\ Target[req[b].of] = Target[req[c].of]
       => b = c

Inv ==
  /\ TypeOK
  /\ OneRow
  /\ \A c \in Requests : StageOf(c)
  /\ AppliedInv
  /\ ToldInv
  /\ LockedInv

-----------------------------------------------------------------------------
LEMMA InitHolds == Init => Inv
<1> SUFFICES ASSUME Init PROVE Inv
  OBVIOUS
<1>1. TypeOK
  BY ProposalsAssumption DEF Init, TypeOK, NewRequest, Stages
<1>2. OneRow /\ LockedInv /\ \A c \in Requests : StageOf(c)
  BY DEF Init, OneRow, LockedInv, StageOf, NewRequest
<1>3. AppliedInv /\ ToldInv
  BY DEF Init, AppliedInv, ToldInv, Rows, NewRequest
<1> QED
  BY <1>1, <1>2, <1>3 DEF Inv

-----------------------------------------------------------------------------
(* Types.                                                                  *)

RequestType ==
  [stage : Stages, of : Proposals \cup {NoProposal},
   row : Outcomes \cup {"None", "Running"}, wrote : BOOLEAN,
   result : {"None", "Failed", "Unknown"}]

\* What a request that concludes nothing makes of its row.
LEMMA GoesOn ==
  ASSUME Inv, NEW c \in Requests, Begin(c) \/ Save(c) \/ Fail(c) \/ Crash(c)
  PROVE  /\ req' \in [Requests -> RequestType]
         /\ \A b \in Requests \ {c} : req'[b] = req[b]
         /\ req'[c].of = req[c].of /\ req'[c].row = req[c].row
         /\ req'[c].stage \in {"checked", "saved", "failing", "over"}
         /\ req'[c].stage = "saved" => Save(c)
         /\ req'[c].wrote <=> req'[c].stage = "saved" /\ kind[req[c].of] # "fill"
         /\ req'[c].stage = "failing" => req'[c].result # "None"
<1> DEFINE r == req[c]
<1>1. req \in [Requests -> RequestType] /\ StageOf(c)
  BY DEF Inv, TypeOK, RequestType
<1>2. r \in RequestType /\ r.wrote \in BOOLEAN /\ r.result \in {"None", "Failed", "Unknown"}
  BY <1>1 DEF RequestType
<1>3. PICK stage \in {"checked", "saved", "failing", "over"}, wrote \in BOOLEAN,
           result \in {"None", "Failed", "Unknown"} :
        /\ \/ /\ req' = [req EXCEPT ![c] = [r EXCEPT !.stage = stage]]
              /\ wrote = r.wrote /\ result = r.result
           \/ /\ req' = [req EXCEPT ![c] = [r EXCEPT !.stage = stage, !.wrote = wrote]]
              /\ result = r.result
           \/ req' = [req EXCEPT ![c] = [r EXCEPT !.stage = stage, !.wrote = wrote,
                                                  !.result = result]]
        /\ stage = "saved" => Save(c)
        /\ wrote <=> stage = "saved" /\ kind[r.of] # "fill"
        /\ stage = "failing" => result # "None"
  <2>1. CASE Begin(c)
    <3>1. r.wrote = FALSE
      BY <1>1, <1>2, <2>1 DEF Begin, StageOf
    <3>2. req' = [req EXCEPT ![c] = [r EXCEPT !.stage = "checked"]]
      BY <1>1, <2>1 DEF Begin
    <3> QED
      BY <1>2, <3>1, <3>2
  <2>2. CASE Save(c)
    <3>1. req' = [req EXCEPT ![c] =
                    [r EXCEPT !.stage = "saved", !.wrote = kind[r.of] # "fill"]]
      BY <1>1, <2>2 DEF Save
    <3> QED
      BY <1>2, <2>2, <3>1
  <2>3. CASE Fail(c)
    <3>1. PICK result \in {"Failed", "Unknown"} :
            req' = [req EXCEPT ![c] = [r EXCEPT !.stage = "failing", !.wrote = FALSE,
                                                !.result = result]]
      BY <1>1, <2>3 DEF Fail, LeftByRollback
    <3> QED
      BY <3>1
  <2>4. CASE Crash(c)
    <3>1. req' = [req EXCEPT ![c] = [r EXCEPT !.stage = "over", !.wrote = FALSE]]
      BY <1>1, <2>4 DEF Crash
    <3> QED
      BY <1>2, <3>1
  <2> QED
    BY <2>1, <2>2, <2>3, <2>4
<1> DEFINE e == req'[c]
<1>4. /\ e \in RequestType
      /\ e.stage = stage /\ e.of = r.of /\ e.row = r.row
      /\ e.wrote = wrote /\ e.result = result
  <2>1. stage \in Stages
    BY DEF Stages
  <2> HIDE DEF r
  <2>2. CASE e = [r EXCEPT !.stage = stage] /\ wrote = r.wrote /\ result = r.result
    <3> HIDE DEF e
    <3> QED
      BY <1>2, <2>1, <2>2 DEF RequestType
  <2>3. CASE e = [r EXCEPT !.stage = stage, !.wrote = wrote] /\ result = r.result
    <3> HIDE DEF e
    <3> QED
      BY <1>2, <2>1, <2>3 DEF RequestType
  <2>4. CASE e = [r EXCEPT !.stage = stage, !.wrote = wrote, !.result = result]
    <3> HIDE DEF e
    <3> QED
      BY <1>2, <2>1, <2>4 DEF RequestType
  <2> QED
    BY <1>1, <1>3, <2>2, <2>3, <2>4
<1>5. /\ req' \in [Requests -> RequestType]
      /\ \A b \in Requests \ {c} : req'[b] = req[b]
  <2> HIDE DEF r
  <2> QED
    BY <1>1, <1>3, <1>4
<1> QED
  BY <1>3, <1>4, <1>5 DEF r

\* What a request leaves alone keeps its type.
LEMMA UntouchedTyped ==
  ASSUME TypeOK, UNCHANGED <<beside, status, fixed, version, applied, told>>,
         req' \in [Requests -> RequestType]
  PROVE  TypeOK'
  BY DEF TypeOK, RequestType, beside, fixed

\* Concluding a request keeps the types, for either result.
LEMMA ConcludeTyped ==
  ASSUME Inv, NEW c \in Requests, req[c].stage # "new", NEW result \in Outcomes,
         Conclude(c, result)
  PROVE  TypeOK'
<1> DEFINE p == req[c].of
<1>1. p \in Proposals /\ Target[p] \in Documents
  BY ProposalsAssumption DEF Inv, StageOf
<1>2. req' \in [Requests -> RequestType]
  <2>1. req \in [Requests -> RequestType]
    BY DEF Inv, TypeOK, RequestType
  <2>2. req' = [req EXCEPT ![c] = [req[c] EXCEPT !.stage = "over", !.row = result,
                                                 !.wrote = FALSE]]
    BY <2>1 DEF Conclude
  <2>3. [req[c] EXCEPT !.stage = "over", !.row = result, !.wrote = FALSE] \in RequestType
    BY <2>1 DEF RequestType, Stages
  <2> QED
    BY <2>1, <2>2, <2>3
<1>3. status' \in [Proposals -> Outcomes \cup {"None", "Pending", "Rejected", "Expired"}]
  BY DEF Conclude, Inv, TypeOK
<1>4. told' \in [Proposals -> SUBSET Outcomes]
  <2>1. told \in [Proposals -> SUBSET Outcomes]
    BY DEF Inv, TypeOK
  <2>2. told' = [told EXCEPT ![p] = @ \cup {result}]
    BY DEF Conclude
  <2> QED
    BY <1>1, <2>1, <2>2
<1>5. applied' \in [Proposals -> Nat] /\ version' \in [Documents -> Nat]
  <2>1. applied \in [Proposals -> Nat] /\ version \in [Documents -> Nat]
    BY DEF Inv, TypeOK
  <2>2. /\ applied' = applied \/ applied' = [applied EXCEPT ![p] = @ + 1]
        /\ version' = version \/ version' = [version EXCEPT ![Target[p]] = @ + 1]
    BY DEF Conclude, Committed
  <2> QED
    BY <1>1, <2>1, <2>2
<1> QED
  BY <1>2, <1>3, <1>4, <1>5 DEF Conclude, beside, fixed, Inv, TypeOK, RequestType

\* Every step keeps the types.
LEMMA TypesKept ==
  ASSUME Inv, [Next]_vars
  PROVE  TypeOK'
<1> USE DEF Inv
<1>1. ASSUME NEW p \in Proposals, Propose(p)
      PROVE  TypeOK'
  <2>1. Target[p] \in Documents /\ MayBe[p] \subseteq Kinds
    BY ProposalsAssumption
  <2> QED
    BY <1>1, <2>1 DEF Propose, beside, TypeOK
<1>2. ASSUME NEW p \in Proposals, Lapse(p) \/ Reject(p)
      PROVE  TypeOK'
  BY <1>2 DEF Lapse, Reject, beside, fixed, TypeOK
<1>3. ASSUME NEW p \in Proposals, Ask(p)
      PROVE  TypeOK'
  <2>1. PICK c \in Rows(p) : told' = [told EXCEPT ![p] = @ \cup {Shown(req[c].row)}]
    BY <1>3 DEF Ask
  <2>2. Shown(req[c].row) \in Outcomes
    BY <2>1 DEF Rows, TypeOK, Shown, Outcomes
  <2>3. told' \in [Proposals -> SUBSET Outcomes]
    BY <2>1, <2>2 DEF TypeOK
  <2> QED
    BY <1>3, <2>3 DEF Ask, fixed, TypeOK
<1>4. ASSUME NEW p \in Proposals, NEW c \in Requests, Intend(c, p)
      PROVE  TypeOK'
  <2>1. req' \in [Requests -> RequestType]
    <3>1. req \in [Requests -> RequestType]
      BY DEF TypeOK, RequestType
    <3>2. req' = [req EXCEPT ![c] = [req[c] EXCEPT !.stage = "intent", !.of = p,
                                                   !.row = "Running"]]
      BY <1>4, <3>1 DEF Intend
    <3>3. [req[c] EXCEPT !.stage = "intent", !.of = p, !.row = "Running"] \in RequestType
      BY <3>1 DEF RequestType, Stages
    <3> QED
      BY <3>1, <3>2, <3>3
  <2> QED
    BY <1>4, <2>1 DEF Intend, beside, fixed, TypeOK, RequestType
<1>5. ASSUME NEW r \in Runs, RunEnds(r)
      PROVE  TypeOK'
  BY <1>5 DEF RunEnds, fixed, TypeOK
<1>6. ASSUME NEW d \in Documents, EditDocument(d)
      PROVE  TypeOK'
  BY <1>6, ProposalsAssumption DEF EditDocument, fixed, TypeOK
<1>7. CASE ExpireProposals
  BY <1>7 DEF ExpireProposals, beside, fixed, TypeOK
<1>8. ASSUME NEW c \in Requests, Begin(c) \/ Save(c) \/ Fail(c) \/ Crash(c)
      PROVE  TypeOK'
  <2>1. UNCHANGED <<beside, status, fixed, version, applied, told>>
    BY <1>8 DEF Begin, Save, Fail, Crash
  <2>2. req' \in [Requests -> RequestType]
    BY <1>8, GoesOn
  <2> QED
    BY <2>1, <2>2, UntouchedTyped
<1>9. ASSUME NEW c \in Requests, Succeed(c)
      PROVE  TypeOK'
  BY <1>9, ConcludeTyped DEF Succeed, Outcome, Outcomes
<1>10. ASSUME NEW c \in Requests, RecordFailure(c)
       PROVE  TypeOK'
  <2>1. req[c].result \in Outcomes /\ req[c].stage # "new" /\ Conclude(c, req[c].result)
    BY <1>10 DEF RecordFailure, StageOf, TypeOK, Outcomes
  <2> QED
    BY <2>1, ConcludeTyped
<1>11. CASE UNCHANGED vars
  BY <1>11 DEF vars, TypeOK
<1> QED
  BY <1>1, <1>2, <1>3, <1>4, <1>5, <1>6, <1>7, <1>8, <1>9, <1>10, <1>11
     DEF Next, ProposalStep, RequestStep

-----------------------------------------------------------------------------
(* Records, answers and locks.                                             *)

RestInv ==
  OneRow /\ (\A c \in Requests : StageOf(c)) /\ AppliedInv /\ ToldInv /\ LockedInv

\* A proposal once made stays what it is.
Made ==
  /\ kind' \in [Proposals -> Kinds \cup {"none"}]
  /\ \A p \in Proposals : status[p] # "None" =>
       status'[p] # "None" /\ kind'[p] = kind[p] /\ frozen'[p] = frozen[p]

\* Steps in which no confirm request takes part.
LEMMA NoRequest ==
  ASSUME Inv, Made, UNCHANGED <<req, applied>>,
         \A p \in Proposals : \A t \in told'[p] :
           t \in told[p] \/ \E c \in Rows(p) : t = Shown(req[c].row),
         \A d \in Documents : version'[d] = version[d] \/ DocumentFree(d)
  PROVE  RestInv'
<1>1. OneRow' /\ AppliedInv'
  BY DEF Inv, OneRow, AppliedInv, Rows
<1>2. \A c \in Requests : StageOf(c)'
  BY DEF Inv, StageOf, Made
<1>3. ToldInv'
  <2> SUFFICES ASSUME NEW p \in Proposals, NEW t \in told'[p], t # "Unknown"
               PROVE  \E c \in Rows(p) : req[c].stage = "over" /\ req[c].row = t
    BY DEF ToldInv, Rows
  <2>1. CASE t \in told[p]
    BY <2>1 DEF Inv, ToldInv
  <2>2. ASSUME NEW c \in Rows(p), t = Shown(req[c].row)
        PROVE  req[c].stage = "over" /\ req[c].row = t
    BY <2>2 DEF Rows, Shown, Inv, StageOf, TypeOK, Stages
  <2> QED
    BY <2>1, <2>2
<1>4. LockedInv'
  <2>1. ASSUME NEW c \in Requests, req[c].stage = "saved"
        PROVE  /\ kind'[req[c].of] = kind[req[c].of]
               /\ version'[Target[req[c].of]] = frozen'[req[c].of]
                    \/ kind'[req[c].of] = "create"
    <3>1. req[c].of \in Proposals /\ Target[req[c].of] \in Documents
      BY <2>1, ProposalsAssumption DEF Inv, StageOf
    <3>2. kind'[req[c].of] = kind[req[c].of] /\ frozen'[req[c].of] = frozen[req[c].of]
      BY <2>1, <3>1 DEF Inv, StageOf, Made
    <3>3. kind[req[c].of] # "create" => ~ DocumentFree(Target[req[c].of])
      BY <2>1 DEF DocumentFree
    <3> QED
      BY <2>1, <3>1, <3>2, <3>3 DEF Inv, LockedInv
  <2> QED
    BY <2>1 DEF Inv, LockedInv
<1> QED
  BY <1>1, <1>2, <1>3, <1>4 DEF RestInv

\* A request goes on and concludes nothing: its record and the answers stay.
LEMMA RequestGoesOn ==
  ASSUME Inv, NEW c \in Requests, Begin(c) \/ Save(c) \/ Fail(c) \/ Crash(c)
  PROVE  RestInv'
<1>1. UNCHANGED <<beside, status, fixed, version, applied, told>>
  BY DEF Begin, Save, Fail, Crash
<1>2. \A b \in Requests \ {c} : req'[b] = req[b]
  BY GoesOn
<1>3. /\ req[c].stage # "new" /\ req[c].stage # "over" /\ req[c].row = "Running"
      /\ req'[c].stage # "new" /\ req'[c].of = req[c].of /\ req'[c].row = req[c].row
  <2>1. req[c].stage \in {"intent", "checked", "saved", "failing"}
    BY DEF Begin, Save, Fail, Crash
  <2> QED
    BY <2>1, GoesOn DEF Inv, StageOf
<1>4. OneRow'
  BY <1>2, <1>3 DEF Inv, OneRow
<1>5. StageOf(c)'
  BY <1>1, <1>3, GoesOn DEF Inv, StageOf, fixed
<1>6. \A b \in Requests \ {c} : StageOf(b)'
  BY <1>1, <1>2 DEF Inv, StageOf, fixed
<1>7. AppliedInv'
  <2>1. \A b \in Requests : req'[b].row = req[b].row /\ req'[b].of = req[b].of
    BY <1>2, <1>3
  <2> QED
    BY <1>1, <2>1 DEF Inv, AppliedInv, Rows
<1>8. ToldInv'
  BY <1>1, <1>2, <1>3 DEF Inv, ToldInv, Rows
<1>9. LockedInv'
  <2>1. CASE Save(c)
    <3>1. /\ version[Target[req[c].of]] = frozen[req[c].of]
          /\ kind[req[c].of] = "create" \/ DocumentFree(Target[req[c].of])
      BY <2>1 DEF Save
    <3>2. kind[req[c].of] # "create" =>
            \A b \in Requests : req[b].stage = "saved" /\ kind[req[b].of] # "create"
                                => Target[req[b].of] # Target[req[c].of]
      BY <3>1 DEF DocumentFree
    <3>3. \A b \in Requests : req'[b].of = req[b].of
      BY <1>2, <1>3
    <3>4. kind' = kind /\ version' = version /\ frozen' = frozen
      BY <1>1 DEF fixed
    <3>5. \A b \in Requests : req'[b].stage = "saved" => b = c \/ req[b].stage = "saved"
      BY <1>2
    <3> QED
      BY <3>1, <3>2, <3>3, <3>4, <3>5 DEF Inv, LockedInv
  <2>2. CASE ~ Save(c)
    <3>1. req'[c].stage # "saved"
      BY <2>2, GoesOn
    <3> QED
      BY <1>1, <1>2, <3>1 DEF Inv, LockedInv, fixed
  <2> QED
    BY <2>1, <2>2
<1> QED
  BY <1>4, <1>5, <1>6, <1>7, <1>8, <1>9 DEF RestInv

\* The first confirmation of a proposal commits its intent.
LEMMA IntendKeeps ==
  ASSUME Inv, NEW p \in Proposals, NEW c \in Requests, Intend(c, p)
  PROVE  RestInv'
<1>1. UNCHANGED <<beside, status, fixed, version, applied, told>>
  BY DEF Intend
<1>2. \A b \in Requests \ {c} : req'[b] = req[b]
  BY DEF Intend, Inv, TypeOK
<1>3. /\ req[c].stage = "new" /\ req[c].row = "None" /\ ~ req[c].wrote
      /\ req'[c].stage = "intent" /\ req'[c].of = p /\ req'[c].row = "Running"
      /\ ~ req'[c].wrote
  BY DEF Intend, Inv, TypeOK, StageOf
<1>4. \A b \in Requests : req[b].stage # "new" => req[b].of # p
  BY DEF Intend, Unconfirmed, Rows, Inv, StageOf
<1>5. OneRow'
  BY <1>2, <1>3, <1>4 DEF Inv, OneRow
<1>6. StageOf(c)'
  BY <1>1, <1>3 DEF Intend, StageOf
<1>7. \A b \in Requests \ {c} : StageOf(b)'
  BY <1>1, <1>2 DEF Inv, StageOf, fixed
<1>8. AppliedInv'
  BY <1>1, <1>2, <1>3 DEF Inv, AppliedInv, Rows
<1>9. ToldInv'
  BY <1>1, <1>2, <1>3 DEF Inv, ToldInv, Rows
<1>10. LockedInv'
  BY <1>1, <1>2, <1>3 DEF Inv, LockedInv, fixed
<1> QED
  BY <1>5, <1>6, <1>7, <1>8, <1>9, <1>10 DEF RestInv

\* A request concludes: the record, the proposal and the write change together.
LEMMA ConcludeKeeps ==
  ASSUME Inv, NEW c \in Requests, NEW result \in Outcomes, Conclude(c, result),
         NEW p, p = req[c].of,
         req[c].stage \in {"saved", "failing"},
         req[c].wrote <=> result = "Succeeded"
  PROVE  RestInv'
<1>1. /\ p \in Proposals /\ Target[p] \in Documents
      /\ req[c].row = "Running" /\ req[c].stage # "new" /\ req[c].stage # "over"
  BY ProposalsAssumption DEF Inv, StageOf
<1>2. /\ \A b \in Requests \ {c} : req'[b] = req[b]
      /\ req'[c].stage = "over" /\ req'[c].of = p /\ req'[c].row = result
      /\ ~ req'[c].wrote
  BY DEF Conclude, Inv, TypeOK
<1>3. /\ UNCHANGED <<kind, frozen>>
      /\ \A q \in Proposals \ {p} : status'[q] = status[q] /\ told'[q] = told[q]
      /\ status'[p] = result /\ told'[p] = told[p] \cup {result}
  BY <1>1 DEF Conclude, fixed, Inv, TypeOK
<1>4. \A b \in Requests \ {c} : req[b].stage # "new" => req[b].of # p
  BY <1>1 DEF Inv, OneRow
<1>5. result # "None" /\ result # "Running"
  BY DEF Outcomes
<1>6. OneRow'
  BY <1>1, <1>2 DEF Inv, OneRow
<1>7. StageOf(c)'
  BY <1>1, <1>2, <1>3, <1>5 DEF StageOf
<1>8. ASSUME NEW b \in Requests \ {c}
      PROVE  StageOf(b)'
  BY <1>2, <1>3, <1>4 DEF Inv, StageOf
<1>9. AppliedInv'
  <2>1. /\ \A q \in Proposals \ {p} : applied'[q] = applied[q]
        /\ applied'[p] = IF result = "Succeeded" THEN applied[p] + 1 ELSE applied[p]
    BY <1>1 DEF Conclude, Committed, Inv, TypeOK
  <2>2. ASSUME NEW q \in Proposals \ {p}
        PROVE  /\ applied'[q] \in {0, 1}
               /\ applied'[q] = 1 <=> \E b \in Rows(q)' : req'[b].row = "Succeeded"
    <3>1. \A b \in Requests : req[b].of = q \/ req'[b].of = q => b # c
      BY <1>2
    <3>2. Rows(q)' = Rows(q) /\ \A b \in Rows(q) : req'[b] = req[b]
      BY <1>2, <3>1 DEF Rows
    <3> QED
      BY <2>1, <3>2 DEF Inv, AppliedInv
  <2>3. Rows(p)' = {c} /\ Rows(p) = {c}
    BY <1>1, <1>2, <1>4, <1>5 DEF Inv, StageOf, Rows
  <2>4. applied[p] = 0
    BY <1>1, <2>3 DEF Inv, AppliedInv
  <2>5. /\ applied'[p] \in {0, 1}
        /\ applied'[p] = 1 <=> \E b \in Rows(p)' : req'[b].row = "Succeeded"
    BY <1>2, <2>1, <2>3, <2>4
  <2>6. \A q \in Proposals :
          /\ applied'[q] \in {0, 1}
          /\ applied'[q] = 1 <=> \E b \in Rows(q)' : req'[b].row = "Succeeded"
    BY <2>2, <2>5
  <2> QED
    BY <2>6 DEF AppliedInv, Rows
<1>10. ToldInv'
  <2> SUFFICES ASSUME NEW q \in Proposals, NEW t \in told'[q], t # "Unknown"
               PROVE  \E b \in Rows(q)' : req'[b].stage = "over" /\ req'[b].row = t
    BY DEF ToldInv, Rows
  <2>1. CASE q = p /\ t = result
    BY <1>2, <1>5, <2>1 DEF Rows
  <2>2. CASE t \in told[q]
    <3>1. PICK b \in Rows(q) : req[b].stage = "over" /\ req[b].row = t
      BY <2>2 DEF Inv, ToldInv
    <3>2. b # c /\ b \in Requests
      BY <1>1, <3>1 DEF Rows
    <3> QED
      BY <1>2, <3>1, <3>2 DEF Rows
  <2> QED
    BY <1>3, <2>1, <2>2
<1>11. LockedInv'
  <2>1. ASSUME NEW b \in Requests \ {c}, req[b].stage = "saved",
               kind[req[b].of] # "create"
        PROVE  version'[Target[req[b].of]] = version[Target[req[b].of]]
    <3>1. Target[req[b].of] \in Documents
      BY <2>1, ProposalsAssumption DEF Inv, StageOf
    <3>2. CASE req[c].wrote /\ kind[p] = "save"
      <4>1. req[c].stage = "saved"
        BY <3>2 DEF Inv, StageOf
      <4>2. Target[req[b].of] # Target[p]
        BY <2>1, <3>2, <4>1 DEF Inv, LockedInv
      <4> QED
        BY <1>1, <3>1, <3>2, <4>2 DEF Conclude, Committed, Inv, TypeOK
    <3>3. CASE ~ (req[c].wrote /\ kind[p] = "save")
      BY <3>3 DEF Conclude, Committed
    <3> QED
      BY <3>2, <3>3
  <2>2. \A b \in Requests : req'[b].stage = "saved" =>
           b # c /\ req'[b] = req[b] /\ kind' = kind /\ frozen' = frozen
    BY <1>2, <1>3
  <2> QED
    BY <2>1, <2>2 DEF Inv, LockedInv
<1> QED
  BY <1>6, <1>7, <1>8, <1>9, <1>10, <1>11 DEF RestInv

\* Every step keeps records, answers and locks together.
LEMMA RestKept ==
  ASSUME Inv, [Next]_vars
  PROVE  RestInv'
<1>t. TypeOK'
  BY TypesKept
<1>1. ASSUME NEW p \in Proposals, Propose(p) \/ Lapse(p) \/ Reject(p)
      PROVE  RestInv'
  <2>1. UNCHANGED <<req, applied, told, version>>
    BY <1>1 DEF Propose, Lapse, Reject
  <2>2. Made
    BY <1>1, <1>t DEF Propose, Lapse, Reject, fixed, Made, Inv, TypeOK
  <2> QED
    BY <2>1, <2>2, NoRequest
<1>2. ASSUME NEW p \in Proposals, Ask(p)
      PROVE  RestInv'
  <2>1. PICK c \in Rows(p) : told' = [told EXCEPT ![p] = @ \cup {Shown(req[c].row)}]
    BY <1>2 DEF Ask
  <2>2. \A q \in Proposals : \A t \in told'[q] :
          t \in told[q] \/ \E b \in Rows(q) : t = Shown(req[b].row)
    BY <2>1 DEF Inv, TypeOK
  <2>3. UNCHANGED <<req, applied, version>> /\ Made
    BY <1>2, <1>t DEF Ask, fixed, Made, TypeOK
  <2> QED
    BY <2>2, <2>3, NoRequest
<1>3. ASSUME NEW r \in Runs, RunEnds(r)
      PROVE  RestInv'
  <2>1. UNCHANGED <<req, applied, told, version>> /\ Made
    BY <1>3, <1>t DEF RunEnds, fixed, Made, TypeOK
  <2> QED
    BY <2>1, NoRequest
<1>4. ASSUME NEW d \in Documents, EditDocument(d)
      PROVE  RestInv'
  <2>1. UNCHANGED <<req, applied, told>> /\ Made
    BY <1>4, <1>t DEF EditDocument, fixed, Made, TypeOK
  <2>2. \A e \in Documents : version'[e] = version[e] \/ DocumentFree(e)
    BY <1>4 DEF EditDocument, Inv, TypeOK
  <2> QED
    BY <2>1, <2>2, NoRequest
<1>5. CASE ExpireProposals
  <2>1. UNCHANGED <<req, applied, told, version>>
    BY <1>5 DEF ExpireProposals
  <2>2. Made
    BY <1>5, <1>t DEF ExpireProposals, fixed, Made, TypeOK
  <2> QED
    BY <2>1, <2>2, NoRequest
<1>6. ASSUME NEW c \in Requests, Succeed(c) \/ RecordFailure(c)
      PROVE  RestInv'
  <2>1. CASE Succeed(c)
    <3>1. /\ req[c].stage = "saved" /\ Conclude(c, Outcome(req[c].of))
          /\ Outcome(req[c].of) \in Outcomes
          /\ Outcome(req[c].of) = "Succeeded" <=> kind[req[c].of] # "fill"
      BY <2>1 DEF Succeed, Outcome, Outcomes
    <3>2. req[c].wrote <=> kind[req[c].of] # "fill"
      BY <3>1 DEF Inv, StageOf
    <3> QED
      BY <3>1, <3>2, ConcludeKeeps
  <2>2. CASE RecordFailure(c)
    <3>1. req[c].stage = "failing" /\ Conclude(c, req[c].result)
      BY <2>2 DEF RecordFailure
    <3>2. req[c].result \in {"Failed", "Unknown"} /\ ~ req[c].wrote
      BY <3>1 DEF Inv, StageOf, TypeOK
    <3> QED
      BY <3>1, <3>2, ConcludeKeeps DEF Outcomes
  <2> QED
    BY <1>6, <2>1, <2>2
<1>7. CASE UNCHANGED vars
  <2>1. UNCHANGED <<req, applied, told, version>> /\ Made
    BY <1>7, <1>t DEF vars, Made, TypeOK
  <2> QED
    BY <2>1, NoRequest
<1> QED
  BY <1>1, <1>2, <1>3, <1>4, <1>5, <1>6, <1>7, IntendKeeps, RequestGoesOn
     DEF Next, ProposalStep, RequestStep

-----------------------------------------------------------------------------
(* The results.                                                            *)

\* The inductive invariant.
LEMMA InvHolds == Spec => []Inv
<1>1. Inv /\ [Next]_vars => Inv'
  BY TypesKept, RestKept DEF Inv, RestInv
<1> QED
  BY InitHolds, <1>1, PTL DEF Spec

\* Type correctness, for any proposals, documents and requests.
THEOREM TypeCorrect == Spec => []TypeOK
<1>1. Inv => TypeOK
  BY DEF Inv
<1> QED
  BY InvHolds, <1>1, PTL

\* However often a proposal is confirmed and wherever a confirmation dies, its
\* write commits at most once.
THEOREM NeverTwice == Spec => []AppliedOnce
<1>1. Inv => AppliedOnce
  BY DEF Inv, AppliedInv, AppliedOnce
<1> QED
  BY InvHolds, <1>1, PTL

\* The execution record says Succeeded exactly when the write is durable.
THEOREM EvidenceTrue == Spec => []EvidenceIsTrue
<1>1. Inv => EvidenceIsTrue
  <2> SUFFICES ASSUME Inv, NEW p \in Proposals
               PROVE  applied[p] > 0 <=> \E c \in Rows(p) : req[c].row = "Succeeded"
    BY DEF EvidenceIsTrue
  <2> QED
    BY DEF Inv, AppliedInv
<1> QED
  BY InvHolds, <1>1, PTL

\* An owner is never shown two different outcomes, nor one that is not so.
LEMMA InvImpliesAnswers ==
  ASSUME Inv
  PROVE  AnswersStand
<1> SUFFICES ASSUME NEW p \in Proposals
             PROVE  /\ "Failed" \in told[p] => applied[p] = 0
                    /\ "Succeeded" \in told[p] => applied[p] > 0
                    /\ Cardinality(told[p] \ {"Unknown"}) <= 1
  BY DEF AnswersStand
<1>1. \A b, c \in Rows(p) : b = c
  BY DEF Inv, OneRow, StageOf, Rows
<1>2. \A t \in told[p] \ {"Unknown"} : \E c \in Rows(p) : req[c].row = t
  BY DEF Inv, ToldInv
<1>3. applied[p] \in {0, 1} /\ (applied[p] = 1 <=> \E c \in Rows(p) : req[c].row = "Succeeded")
  BY DEF Inv, AppliedInv
<1>4. "Failed" \in told[p] => applied[p] = 0
  BY <1>1, <1>2, <1>3
<1>5. "Succeeded" \in told[p] => applied[p] > 0
  BY <1>2, <1>3
<1>6. Cardinality(told[p] \ {"Unknown"}) <= 1
  <2>1. CASE told[p] \ {"Unknown"} = {}
    BY <2>1, FS_EmptySet
  <2>2. CASE told[p] \ {"Unknown"} # {}
    <3>1. PICK t : t \in told[p] \ {"Unknown"}
      BY <2>2
    <3>2. told[p] \ {"Unknown"} = {t}
      BY <1>1, <1>2, <3>1
    <3>3. Cardinality({t}) = 1
      BY FS_Singleton
    <3> QED
      BY <3>2, <3>3
  <2> QED
    BY <2>1, <2>2
<1> QED
  BY <1>4, <1>5, <1>6

\* What an owner was shown stays true, also when they looked in the middle.
THEOREM AnswersTrue == Spec => []AnswersStand
<1>1. Inv => AnswersStand
  BY InvImpliesAnswers
<1> QED
  BY InvHolds, <1>1, PTL

\* A business write is committed by a request that saved its document.
LEMMA WritesAsConfirmed ==
  ASSUME Inv, [Next]_vars, NEW p \in Proposals, applied'[p] # applied[p],
         kind[p] # "create"
  PROVE  version[Target[p]] = frozen[p]
<1>1. PICK c \in Requests, result \in Outcomes : Conclude(c, result) /\ req[c].wrote
  <2>1. CASE \E q \in Proposals : ProposalStep(q)
    BY <2>1 DEF ProposalStep, Propose, Lapse, Ask, Reject, Intend
  <2>2. CASE (\E r \in Runs : RunEnds(r)) \/ (\E d \in Documents : EditDocument(d))
               \/ ExpireProposals \/ UNCHANGED vars
    BY <2>2 DEF RunEnds, EditDocument, ExpireProposals, vars
  <2>3. ASSUME NEW c \in Requests, RequestStep(c)
        PROVE  (\E result \in Outcomes : Conclude(c, result)) /\ req[c].wrote
    <3>1. CASE Begin(c) \/ Save(c) \/ Fail(c) \/ Crash(c)
      BY <3>1 DEF Begin, Save, Fail, Crash
    <3>2. ASSUME NEW result, Conclude(c, result)
          PROVE  req[c].wrote
      BY <3>2 DEF Conclude, Committed
    <3>3. CASE Succeed(c)
      BY <3>2, <3>3 DEF Succeed, Outcome, Outcomes
    <3>4. CASE RecordFailure(c)
      BY <3>2, <3>4 DEF RecordFailure, Inv, StageOf, TypeOK, Outcomes
    <3> QED
      BY <2>3, <3>1, <3>3, <3>4 DEF RequestStep
  <2> QED
    BY <2>1, <2>2, <2>3 DEF Next
<1>2. req[c].stage = "saved" /\ req[c].of \in Proposals
  BY <1>1 DEF Inv, StageOf
<1>3. req[c].of = p
  BY <1>1, <1>2 DEF Conclude, Committed, Inv, TypeOK
<1> QED
  BY <1>2, <1>3 DEF Inv, LockedInv

\* A write lands on the version its owner confirmed.
THEOREM LandsAsConfirmed == Spec => AppliedAsConfirmed
<1>1. Inv /\ [Next]_vars =>
        [\A p \in Proposals :
           applied'[p] # applied[p] /\ kind[p] # "create" =>
             version[Target[p]] = frozen[p]]_vars
  BY WritesAsConfirmed
<1> QED
  BY InvHolds, <1>1, PTL DEF Spec, AppliedAsConfirmed

-----------------------------------------------------------------------------
(* Every step, of whoever, is one of the promise's or none: what lies        *)
(* between the intent and the last commit is not seen by the owner.          *)

\* The promise's state, read off the records and the proposals.
standing == [p \in Proposals |-> Standing(p)]

\* A proposal has one record, whose last word is its standing, or none.
StandingInv ==
  \A p \in Proposals :
    /\ \A c \in Rows(p) :
         /\ Rows(p) = {c}
         /\ Standing(p) = IF req[c].row = "Running" THEN "confirmed" ELSE req[c].row
         /\ req[c].row \in Outcomes \cup {"Running"}
    /\ Rows(p) = {} =>
         /\ status[p] = "None" => Standing(p) = "none"
         /\ status[p] = "Pending" => Standing(p) = "open"
         /\ status[p] \notin {"None", "Pending"} => Standing(p) = "withdrawn"

LEMMA StandingRead == Inv => StandingInv
<1> SUFFICES ASSUME Inv, NEW p \in Proposals
             PROVE  /\ \A c \in Rows(p) :
                         /\ Rows(p) = {c}
                         /\ Standing(p) = IF req[c].row = "Running"
                                          THEN "confirmed" ELSE req[c].row
                         /\ req[c].row \in Outcomes \cup {"Running"}
                    /\ Rows(p) = {} =>
                         /\ status[p] = "None" => Standing(p) = "none"
                         /\ status[p] = "Pending" => Standing(p) = "open"
                         /\ status[p] \notin {"None", "Pending"} => Standing(p) = "withdrawn"
  BY DEF StandingInv
<1>1. ASSUME NEW c \in Rows(p)
      PROVE  /\ Rows(p) = {c}
             /\ Standing(p) = IF req[c].row = "Running" THEN "confirmed" ELSE req[c].row
             /\ req[c].row \in Outcomes \cup {"Running"}
  <2>1. Rows(p) = {c}
    BY <1>1 DEF Rows, Inv, OneRow, StageOf
  <2>2. (CHOOSE b \in Rows(p) : TRUE) = c
    BY <2>1
  <2>3. req[c].row \in Outcomes \cup {"Running"}
    BY <1>1 DEF Rows, Inv, TypeOK
  <2> QED
    BY <2>1, <2>2, <2>3 DEF Standing
<1>2. CASE Rows(p) = {}
  BY <1>2 DEF Standing
<1> QED
  BY <1>1, <1>2

\* A proposal nobody touched stands where it stood.
LEMMA SameStanding ==
  ASSUME StandingInv, StandingInv', NEW p \in Proposals,
         Rows(p)' = Rows(p), \A c \in Rows(p) : req'[c].row = req[c].row,
         Rows(p) = {} => status'[p] = status[p]
  PROVE  Standing(p)' = Standing(p)
<1>1. CASE Rows(p) = {}
  BY <1>1 DEF StandingInv
<1>2. ASSUME NEW c \in Rows(p) PROVE Standing(p)' = Standing(p)
  BY <1>2 DEF StandingInv
<1> QED
  BY <1>1, <1>2

\* One proposal moves, the others stand still.
LEMMA MovesOne ==
  ASSUME NEW p \in Proposals, \A q \in Proposals \ {p} : Standing(q)' = Standing(q)
  PROVE  standing' = [standing EXCEPT ![p] = Standing(p)']
BY DEF standing

\* Requests that gain no record and proposals without one that keep their
\* status leave the promise alone.
LEMMA NoMove ==
  ASSUME StandingInv, StandingInv',
         \A c \in Requests : req'[c].of = req[c].of /\ req'[c].row = req[c].row,
         \A p \in Proposals : Rows(p) = {} => status'[p] = status[p]
  PROVE  standing' = standing
<1>1. \A p \in Proposals : Rows(p)' = Rows(p)
  BY DEF Rows
<1>2. \A p \in Proposals : \A c \in Rows(p) : req'[c].row = req[c].row
  BY DEF Rows
<1>3. \A p \in Proposals : Standing(p)' = Standing(p)
  BY <1>1, <1>2, SameStanding
<1> QED
  BY <1>3 DEF standing

seen == <<standing, kind, frozen, version, applied, told>>

\* A step of the promise, spelled out over the rows.
PromiseStep ==
  \/ \E p \in Proposals :
       \/ Promise!Propose(p) \/ Promise!Confirm(p) \/ Promise!CarryOut(p)
       \/ Promise!Authorize(p) \/ Promise!GiveUp(p) \/ Promise!Tell(p)
  \/ \E gone \in SUBSET Proposals : Promise!Withdraw(gone)
  \/ \E d \in Documents : Promise!Edit(d)
  \/ UNCHANGED seen

Seen == Inv /\ StandingInv /\ StandingInv'

\* The proposal is made.
LEMMA ProposePromised ==
  ASSUME Seen, NEW p \in Proposals, Propose(p)
  PROVE  Promise!Propose(p)
<1>1. /\ status[p] = "None" /\ status' = [status EXCEPT ![p] = "Pending"]
      /\ status \in [Proposals -> Outcomes \cup {"None", "Pending", "Rejected", "Expired"}]
      /\ UNCHANGED <<version, applied, told, req>>
      /\ frozen' = [frozen EXCEPT ![p] = version[Target[p]]]
  BY DEF Propose, Seen, Inv, TypeOK
<1>2. \A q \in Proposals : Rows(q)' = Rows(q)
  BY <1>1 DEF Rows
<1>3. Rows(p) = {}
  BY <1>1 DEF Rows, Seen, Inv, StageOf
<1>4. Standing(p) = "none" /\ Standing(p)' = "open"
  BY <1>1, <1>2, <1>3 DEF Seen, StandingInv
<1>5. \A q \in Proposals \ {p} : Standing(q)' = Standing(q)
  BY <1>1, <1>2, SameStanding DEF Seen
<1>6. \E k \in Promise!Kinds : kind' = [kind EXCEPT ![p] = k]
  BY ProposalsAssumption DEF Propose, Promise!Kinds, Kinds
<1> QED
  BY <1>1, <1>4, <1>5, <1>6, MovesOne DEF Promise!Propose, standing

\* Its owner rejects it, or the sweep finds it lapsed: that withdraws it unless
\* it was confirmed before.
LEMMA WithdrawPromised ==
  ASSUME Seen, NEW S \in SUBSET Proposals, \A p \in S : status[p] = "Pending",
         \A p \in S : status'[p] \in {"Rejected", "Expired"},
         \A p \in Proposals \ S : status'[p] = status[p],
         UNCHANGED <<kind, frozen, version, applied, told, req>>
  PROVE  \E gone \in SUBSET Proposals : Promise!Withdraw(gone)
<1> DEFINE gone == {p \in S : Rows(p) = {}}
<1>1. \A p \in Proposals : Rows(p)' = Rows(p)
  BY DEF Rows
<1>2. \A p \in gone : Standing(p) = "open" /\ Standing(p)' = "withdrawn"
  BY <1>1 DEF Seen, StandingInv
<1>3. \A p \in Proposals \ gone : Standing(p)' = Standing(p)
  BY <1>1, SameStanding DEF Seen
<1> HIDE DEF gone
<1>4. standing' = [p \in Proposals |-> IF p \in gone THEN "withdrawn" ELSE standing[p]]
  BY <1>2, <1>3 DEF standing
<1>5. gone \in SUBSET Proposals
  BY DEF gone
<1>6. \A p \in gone : standing[p] = "open"
  BY <1>2, <1>5 DEF standing
<1> QED
  BY <1>4, <1>5, <1>6 DEF Promise!Withdraw, standing

\* The first intent confirms it.
LEMMA IntendPromised ==
  ASSUME Seen, NEW p \in Proposals, NEW c \in Requests, Intend(c, p)
  PROVE  Promise!Confirm(p)
<1>1. /\ Rows(p) = {} /\ status[p] = "Pending" /\ req[c].stage = "new"
      /\ UNCHANGED <<status, kind, frozen, version, applied, told>>
  BY DEF Intend, Unconfirmed, fixed
<1>2. /\ \A b \in Requests \ {c} : req'[b] = req[b]
      /\ req'[c].of = p /\ req'[c].row = "Running" /\ req[c].row = "None"
  BY DEF Intend, Seen, Inv, TypeOK, StageOf
<1>3. c \in Rows(p)'
  BY <1>2 DEF Rows
<1>4. Standing(p) = "open" /\ Standing(p)' = "confirmed"
  BY <1>1, <1>2, <1>3 DEF Seen, StandingInv
<1>5. ASSUME NEW q \in Proposals \ {p} PROVE Standing(q)' = Standing(q)
  <2>1. c \notin Rows(q) /\ Rows(q)' = Rows(q)
    BY <1>2 DEF Rows
  <2>2. \A b \in Rows(q) : req'[b].row = req[b].row
    BY <1>2, <2>1 DEF Rows
  <2> QED
    BY <1>1, <2>1, <2>2, SameStanding DEF Seen
<1> QED
  BY <1>1, <1>4, <1>5, MovesOne DEF Promise!Confirm, standing

\* The last commit ends it.
LEMMA ConcludeEnds ==
  ASSUME Seen, NEW c \in Requests, NEW result \in Outcomes, Conclude(c, result),
         req[c].stage \in {"saved", "failing"}, NEW p, p = req[c].of
  PROVE  p \in Proposals /\ Promise!End(p, result)
<1>1. p \in Proposals /\ req[c].row = "Running"
  BY DEF Seen, Inv, StageOf
<1>2. /\ \A b \in Requests \ {c} : req'[b] = req[b]
      /\ req'[c].of = p /\ req'[c].row = result
      /\ UNCHANGED <<kind, frozen>> /\ told' = [told EXCEPT ![p] = @ \cup {result}]
  BY DEF Conclude, fixed, Seen, Inv, TypeOK
<1>3. \A q \in Proposals \ {p} : status'[q] = status[q]
  BY DEF Conclude, Seen, Inv, TypeOK
<1>4. result # "Running" /\ result # "None"
  BY DEF Outcomes
<1>5. c \in Rows(p) /\ c \in Rows(p)'
  BY <1>1, <1>2, <1>4 DEF Rows
<1>6. Standing(p) = "confirmed" /\ Standing(p)' = result
  BY <1>1, <1>2, <1>4, <1>5 DEF Seen, StandingInv
<1>7. ASSUME NEW q \in Proposals \ {p} PROVE Standing(q)' = Standing(q)
  <2>1. c \notin Rows(q) /\ Rows(q)' = Rows(q)
    BY <1>2 DEF Rows
  <2>2. \A b \in Rows(q) : req'[b].row = req[b].row
    BY <1>2, <2>1 DEF Rows
  <2> QED
    BY <1>3, <2>1, <2>2, SameStanding DEF Seen
<1> QED
  BY <1>1, <1>2, <1>6, <1>7, MovesOne DEF Promise!End, standing

\* It carries the operation out, or authorizes the form, on the version that
\* was confirmed ...
LEMMA SucceedPromised ==
  ASSUME Seen, NEW c \in Requests, Succeed(c)
  PROVE  \E p \in Proposals : Promise!CarryOut(p) \/ Promise!Authorize(p)
<1> DEFINE p == req[c].of
<1>1. /\ req[c].stage = "saved" /\ Conclude(c, Outcome(p)) /\ Outcome(p) \in Outcomes
  BY DEF Succeed, Outcome, Outcomes
<1>2. p \in Proposals /\ Promise!End(p, Outcome(p))
  BY <1>1, ConcludeEnds
<1>3. Promise!AsProposed(p)
  BY <1>1 DEF Seen, Inv, LockedInv, Promise!AsProposed
<1>4. req[c].wrote <=> kind[p] # "fill"
  BY <1>1 DEF Seen, Inv, StageOf
<1>5. CASE kind[p] = "fill"
  BY <1>1, <1>2, <1>3, <1>4, <1>5 DEF Conclude, Committed, Outcome, Promise!Authorize
<1>6. CASE kind[p] # "fill"
  BY <1>1, <1>2, <1>3, <1>4, <1>6 DEF Conclude, Committed, Outcome, Promise!CarryOut
<1> QED
  BY <1>2, <1>5, <1>6

\* ... or leaves no trace of the attempt.
LEMMA FailurePromised ==
  ASSUME Seen, NEW c \in Requests, RecordFailure(c)
  PROVE  \E p \in Proposals : Promise!GiveUp(p)
<1>1. req[c].stage = "failing" /\ Conclude(c, req[c].result)
  BY DEF RecordFailure
<1>2. req[c].result \in {"Failed", "Unknown"} /\ ~ req[c].wrote
  BY <1>1 DEF Seen, Inv, StageOf, TypeOK
<1>3. req[c].of \in Proposals /\ Promise!End(req[c].of, req[c].result)
  BY <1>1, <1>2, ConcludeEnds DEF Outcomes
<1>4. UNCHANGED <<applied, version>>
  BY <1>1, <1>2 DEF Conclude, Committed
<1> QED
  BY <1>2, <1>3, <1>4 DEF Promise!GiveUp

\* Whoever asks is told how it stands.
LEMMA AskPromised ==
  ASSUME Seen, NEW p \in Proposals, Ask(p)
  PROVE  Promise!Tell(p)
<1>1. PICK c \in Rows(p) : told' = [told EXCEPT ![p] = @ \cup {Shown(req[c].row)}]
  BY DEF Ask
<1>2. /\ Standing(p) = IF req[c].row = "Running" THEN "confirmed" ELSE req[c].row
      /\ req[c].row \in Outcomes \cup {"Running"}
  BY DEF Seen, StandingInv
<1>3. Shown(req[c].row) = IF Standing(p) = "confirmed" THEN "Unknown" ELSE Standing(p)
  BY <1>2 DEF Shown, Outcomes
<1>4. Standing(p) \notin {"none", "open", "withdrawn"}
  BY <1>2 DEF Outcomes
<1>5. standing' = standing
  BY NoMove DEF Seen, Ask
<1> QED
  BY <1>1, <1>3, <1>4, <1>5 DEF Ask, fixed, Promise!Tell, standing

\* One step of anyone is a step of the promise or none.
LEMMA StepKeepsPromise ==
  ASSUME Inv, Inv', [Next]_vars
  PROVE  PromiseStep
<1>0. Seen
  BY StandingRead, PTL DEF Seen
<1>1. ASSUME NEW p \in Proposals, Propose(p) PROVE PromiseStep
  BY <1>0, <1>1, ProposePromised DEF PromiseStep
<1>2. ASSUME NEW p \in Proposals, Ask(p) PROVE PromiseStep
  BY <1>0, <1>2, AskPromised DEF PromiseStep
<1>3. ASSUME NEW p \in Proposals, Reject(p) PROVE PromiseStep
  <2>1. /\ status[p] = "Pending" /\ status'[p] = "Rejected"
        /\ \A q \in Proposals \ {p} : status'[q] = status[q]
        /\ UNCHANGED <<kind, frozen, version, applied, told, req>>
    BY <1>3 DEF Reject, fixed, Inv, TypeOK
  <2>2. {p} \in SUBSET Proposals
    OBVIOUS
  <2> QED
    BY <1>0, <2>1, <2>2, WithdrawPromised DEF PromiseStep
<1>4. CASE ExpireProposals
  <2>1. /\ \A p \in LapsedProposals : status[p] = "Pending" /\ status'[p] = "Expired"
        /\ \A p \in Proposals \ LapsedProposals : status'[p] = status[p]
        /\ UNCHANGED <<kind, frozen, version, applied, told, req>>
    BY <1>4 DEF ExpireProposals, LapsedProposals, fixed
  <2>2. LapsedProposals \in SUBSET Proposals
    BY DEF LapsedProposals
  <2> QED
    BY <1>0, <2>1, <2>2, WithdrawPromised DEF PromiseStep
<1>5. ASSUME NEW p \in Proposals, NEW c \in Requests, Intend(c, p) PROVE PromiseStep
  BY <1>0, <1>5, IntendPromised DEF PromiseStep
<1>6. ASSUME NEW c \in Requests, Succeed(c) \/ RecordFailure(c) PROVE PromiseStep
  BY <1>0, <1>6, SucceedPromised, FailurePromised DEF PromiseStep
<1>7. ASSUME NEW d \in Documents, EditDocument(d) PROVE PromiseStep
  <2>1. standing' = standing
    BY <1>0, <1>7, NoMove DEF Seen, EditDocument
  <2>2. Promise!Edit(d)
    BY <1>7, <2>1 DEF EditDocument, fixed, Promise!Edit, standing
  <2> QED
    BY <2>2 DEF PromiseStep
<1>8. CASE \/ \E p \in Proposals : Lapse(p)
           \/ \E r \in Runs : RunEnds(r)
           \/ UNCHANGED vars
  <2>1. UNCHANGED <<status, kind, frozen, version, applied, told, req>>
    BY <1>8 DEF Lapse, RunEnds, fixed, vars
  <2>2. standing' = standing
    BY <1>0, <2>1, NoMove DEF Seen
  <2> QED
    BY <2>1, <2>2 DEF PromiseStep, seen
<1>9. ASSUME NEW c \in Requests, Begin(c) \/ Save(c) \/ Fail(c) \/ Crash(c)
      PROVE  PromiseStep
  <2>1. UNCHANGED <<status, kind, frozen, version, applied, told>>
    BY <1>9 DEF Begin, Save, Fail, Crash, fixed
  <2>2. \A b \in Requests : req'[b].of = req[b].of /\ req'[b].row = req[b].row
    BY <1>9, GoesOn
  <2>3. standing' = standing
    BY <1>0, <2>1, <2>2, NoMove DEF Seen
  <2> QED
    BY <2>1, <2>3 DEF PromiseStep, seen
<1> QED
  BY <1>1, <1>2, <1>3, <1>4, <1>5, <1>6, <1>7, <1>8, <1>9
     DEF Next, ProposalStep, RequestStep

\* For any proposals, documents and confirm requests, confirming is one stroke
\* for its owner: what runs between the intent and the last commit, who else
\* saves, rejects, sweeps or asks meanwhile, and where a request dies, make no
\* difference that OperationPromise does not allow (confirm, reject,
\* expire_proposals and get_proposal together).
THEOREM OwnersKeepPromise == Spec => PromiseKept
<1>1. Init => Promise!Init
  <2> SUFFICES ASSUME Init PROVE Promise!Init
    OBVIOUS
  <2>1. \A p \in Proposals : Standing(p) = "none"
    BY DEF Init, Rows, NewRequest, Standing
  <2> QED
    BY <2>1 DEF Init, Promise!Init
<1>2. Inv /\ Inv' /\ [Next]_vars => [Promise!Next]_seen
  BY StepKeepsPromise DEF PromiseStep, Promise!Next
<1> QED
  BY <1>1, <1>2, InvHolds, PTL DEF Spec, PromiseKept, Promise!Spec, Promise!vars, seen, standing
=============================================================================
