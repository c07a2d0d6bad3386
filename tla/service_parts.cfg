INIT Init
NEXT Next
CONSTANTS
  CacheKeys = {"k"}
  Callers = {1}
  Signed = {"int8"}
  Unsigned = {"uint8"}
  Floats = {"float64"}
  Width <- MCWidth
  Steps = {1}
  Durations <- MCDurations
  CacheDefault = 1
  MaxFloat = 1
  MaxObjects = 2
  MaxCacheClock = 3
  Lookups = {1, 2}
  Versions = {"1"}
  Expiration = 1
  RpcTimeout = 1
  MaxRevisions = 1
  MaxLookupClock = 4
  Calls = {1, 2}
  Hooks = {"h"}
  MaxRequestsInFlight = 1
  DefaultTimeout = 3
  ClientTimeouts = {0}
  Verbs = {"POST"}
  MaxRetries = 2
  Paths <- MCPaths
  Responders = {"h", "i"}
  NotFound = "404"
  MaxRegistrations = 3
  Creators = {1}
  Getters = {1}
  Functions = {"f", "g"}
  Hashes = {"own", "other"}
  StubHash = "own"
  Codes = {"x"}
  ArgVersions = {"", "2"}
  MaxStoreRequests = 2
  Doors = {1, 2}
  Conns = {1}
  MaxIssued = 2
INVARIANT EvictedOnce
INVARIANT AgeBounded
INVARIANT HttpServerSafe
INVARIANT CallsSound
 
 
PROPERTY ItemsKept
CHECK_DEADLOCK FALSE
