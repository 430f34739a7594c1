CONSTANTS
  alice = alice
  bob = bob
  a1 = a1
  a2 = a2
  b1 = b1
  c1 = c1
  c2 = c2
  NoConversation = NoConversation
  Users = {alice, bob}
  Conversations = {a1}
  Owner <- MCOwnerOne
  Claimers = {c1}
  NumRuns = 2
  SiteConcurrency = 1
  SweepLimit = 1
  QueueExpires = 1
  ClaimAck = 2
  Lease = 3
  RenewBelow = 2
  RunTotal = 2
  KillGrace = 1
  RulingSlack = 1
  HeartbeatTicks = 1
  MaxCalls = 2
  SsoEnforced = TRUE
  FactKinds = {"attempted", "over_budget", "loop", "timed_out"}
  RefusalKinds = {"attempted", "over_budget", "loop"}
  Archivable = {a1}
SPECIFICATION Spec
INVARIANTS ArchivedIsQuiet
