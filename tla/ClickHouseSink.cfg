CONSTANTS
  Procs = {p1}
  MaxTicks = 4
  MaxRows = 2
  ChanCap = 1
  TsOf <- MCTsOf
SPECIFICATION FairSpec
INVARIANT RowsConserved
PROPERTIES EventuallyFlushed OldestWhileDown FlushedAtClose
