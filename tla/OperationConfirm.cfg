\* Two confirm requests for a save and a create proposal of one run; fairness.
SPECIFICATION FairSpec
CONSTANTS
  p1 = p1
  p2 = p2
  r1 = r1
  d1 = d1
  c1 = c1
  c2 = c2
  NoProposal = NoProposal
  Proposals = {p1, p2}
  Runs = {r1}
  Documents = {d1}
  Requests = {c1, c2}
  Origin <- MCOrigin
  Target <- MCTarget
  MayBe <- MCMayBe
  MaxEdits = 1
INVARIANTS AppliedOnce EvidenceIsTrue AnswersStand
PROPERTIES AppliedAsConfirmed PendingEnds PromiseKept
CHECK_DEADLOCK FALSE
