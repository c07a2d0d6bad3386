SPECIFICATION Spec
CONSTANTS
  fn1 = fn1
  fn2 = fn2
  q1 = q1
  q2 = q2
  q3 = q3
  Functions = {fn1, fn2}
  NoCommit = NoCommit
  UintSpan = 4
  DefaultConcurrentMode = TRUE
  NumRuntimes = 1
  Requests = {q1, q3}
  FunctionOf <- Mixed
  MemoryOf <- UnitMemory
  QuotaOf <- Exclusive
  BaseMemory = 1
  Allocatable = 2
  MaxTries = 1
  MaxCrashes = 1
  MaxErrors = 0
  SyncTask = FALSE
  Faults = {"silent", "late", "gap", "straggler"}
INVARIANT RightCode
INVARIANT NoPhantomConcurrency
