CONSTANTS
  p1 = p1  p2 = p2
  Procs <- MCProcs
  Returning = {}
  MaxTotal = 2
  QueueCap = 1
  NoHash = NoHash
SPECIFICATION Spec
PROPERTY DestsNeverDrift
