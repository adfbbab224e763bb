CONSTANTS
  s1 = s1  s2 = s2  s3 = s3
  i1 = i1
  f1 = f1  f2 = f2
  d1 = d1
  tls = tls
  NoHead = NoHead
  Sends <- MCSends
  Insts <- MCInsts
  Flows <- MCFlows
  FlowOf <- MCFlowOf
  ProcOf <- MCProcOf
  DestOf <- MCDestOf
  HeadOf <- MCHeadOf
  Retain = 3
  Liveness = 2
  CacheTtl = 4
  Steps = {1, 2}
  Strays = {FALSE, TRUE}
SPECIFICATION FairSpec
INVARIANTS DeltasSuffice TotalsExact
PROPERTIES EventuallyForgotten ExitApplied StaysEnded
