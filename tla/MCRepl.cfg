\* Two captures under two names, two entries each, with crashes; every stop
\* comes back under the fairness of the scheduler.
SPECIFICATION FairSpec
CONSTANTS
  Sessions = {a, b}
  MaxRuns = 2
  MaxEntries = 2
  MaxConns = 1
  MaxImport = 2
INVARIANTS
  TypeOK
  OneListener
  OnlyCurrentOpen
  DurableFaithful
PROPERTY StopReturns
