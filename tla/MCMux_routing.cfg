\* Two clients against children that crash, refuse writes and are replaced, while
\* responses, the cache of the initialize response, timeouts and resets race.
SPECIFICATION Spec
CONSTANTS
  Clients = {a, b}
  MaxActiveClients = 2
  MAX_QUEUE = 2
  MAX_PENDING = 4
  MaxRestarts = 0
  LazyStart = FALSE
  Kinds = {"request", "initialize"}
  Env = {"child_write_error", "wait_error"}
  MaxMsgs = 1
  MaxSpawns = 2
  MaxEvents = 2
INVARIANTS
  TypeOK
  DemuxCorrect
  DeadChildSilent
  CacheFromLiveChild
  OneFate
PROPERTIES
  ImplementsLedger
SYMMETRY ClientSymmetry
CHECK_DEADLOCK FALSE
