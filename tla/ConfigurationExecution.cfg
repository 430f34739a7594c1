\* Two processes, two packages that overlap, native saves and records.
SPECIFICATION Spec
CONSTANTS
  app = app
  twin = twin
  new = new
  old = old
  masters = masters
  q1 = q1
  q2 = q2
  NoOne = NoOne
  Confirmations = {app, twin}
  Structures = {new, old, masters}
  Requests = {q1, q2}
  Documents <- MCDocuments
  Locks <- MCLocks
SYMMETRY RequestSymmetry
INVARIANTS StepsAreTrue StopsWhenWithdrawn
PROPERTIES StructuresStand
