CONSTANTS
  c1 = c1  c2 = c2  c3 = c3
  i1 = i1  i2 = i2
  d1 = d1  d2 = d2
  Calls <- MCCalls
  Insts <- MCInsts
  InstOf <- MCInstOf
  PidOf <- MCPidOf
  DestOf <- MCDestOf
  Mortal = {}
  Slots = {1}
  RingCap = 1
  ProcsCap = 1
  Grace = TRUE
  NoKey = NoKey
  NoInst = NoInst
SPECIFICATION FairSpec
INVARIANTS NothingLost NoDoubleCount BytesMatchCalls
PROPERTIES DropsOnlyWhenFull AccountingSpec EventuallySettled
CHECK_DEADLOCK FALSE
