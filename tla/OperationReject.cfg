\* What rejecting a proposal promises, while a confirmation is under way.
SPECIFICATION Spec
CONSTANTS
  p1 = p1
  p2 = p2
  r1 = r1
  d1 = d1
  c1 = c1
  c2 = c2
  NoProposal = NoProposal
  Proposals = {p1, p2}
  Runs = {r1}
  Documents = {d1}
  Requests = {c1, c2}
  Origin <- MCOrigin
  Target <- MCTarget
  MayBe <- MCMayBe
  MaxEdits = 1
PROPERTIES RejectedIsNotExecuted
CHECK_DEADLOCK FALSE
