SPECIFICATION Spec
CONSTANTS
  fn1 = fn1
  fn2 = fn2
  q1 = q1
  q2 = q2
  q3 = q3
  Functions = {fn1, fn2}
  NoCommit = NoCommit
  UintSpan = 4
  DefaultConcurrentMode = TRUE
  NumRuntimes = 2
  Requests = {q1, q3}
  FunctionOf <- Mixed
  MemoryOf <- BigMemory
  QuotaOf <- Exclusive
  BaseMemory = 1
  Allocatable = 3
  MaxTries = 1
  MaxCrashes = 0
  MaxErrors = 1
  SyncTask = FALSE
  Faults = {}
INVARIANT TypeOK
INVARIANT Conserved
INVARIANT RebootCounts
