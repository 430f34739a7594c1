CONSTANTS
  alice = alice
  bob = bob
  a1 = a1
  a2 = a2
  b1 = b1
  c1 = c1
  c2 = c2
  NoConversation = NoConversation
  Users = {alice, bob}
  Conversations = {a1, a2}
  Owner <- MCOwnerSame
  Claimers = {c1}
  NumRuns = 2
  SiteConcurrency = 2
  SweepLimit = 1
  QueueExpires = 1
  ClaimAck = 1
  Lease = 3
  RenewBelow = 2
  RunTotal = 1
  KillGrace = 0
  RulingSlack = 0
  HeartbeatTicks = 1
  MaxCalls = 0
  SsoEnforced = TRUE
  FactKinds = {"attempted"}
  RefusalKinds = {}
  Archivable = {}
SPECIFICATION FairSpec
INVARIANTS OwnerExclusive
PROPERTIES QueuedLeaves InFlightEnds
