CONSTANTS
  c1 = c1  c2 = c2  c3 = c3
  i1 = i1  i2 = i2
  d1 = d1  d2 = d2
  Calls <- MCCalls
  Insts <- MCInsts
  InstOf <- MCInstOf
  PidOf <- MCReusedPidOf
  DestOf <- MCReusedDestOf
  Mortal <- MCInsts
  Slots = {1}
  RingCap = 1
  ProcsCap = 1
  Grace = TRUE
  NoKey = NoKey
  NoInst = NoInst
SPECIFICATION Spec
INVARIANT NeverMerged
CHECK_DEADLOCK FALSE
