CONSTANTS
  p1 = p1  p2 = p2
  Procs <- MCProcs
  Returning <- MCReturning
  MaxTotal = 2
  QueueCap = 1
  NoHash = NoHash
SPECIFICATION Spec
INVARIANT SnapshotAgrees
PROPERTIES EndedExpires
