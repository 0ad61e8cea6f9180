\* One client with requests in flight across lazily started children, up to the
\* restart limit.
SPECIFICATION Spec
CONSTANTS
  Clients = {a}
  MaxActiveClients = 1
  MAX_QUEUE = 2
  MAX_PENDING = 4
  MaxRestarts = 2
  LazyStart = TRUE
  Kinds = {"request"}
  Env = {"child_write_error", "shutdown"}
  MaxMsgs = 3
  MaxSpawns = 3
  MaxEvents = 1
INVARIANTS
  PidIsCurrent
  NoneStranded
PROPERTIES
  OrderedAtMostOnce
CHECK_DEADLOCK FALSE
