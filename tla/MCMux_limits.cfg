\* Two clients and one permit, one place in the queue and one pending request;
\* every kind of message, a spawn and a write to a client that may fail, and
\* shutdown.
SPECIFICATION Spec
CONSTANTS
  Clients = {a, b}
  MaxActiveClients = 1
  MAX_QUEUE = 1
  MAX_PENDING = 1
  MaxRestarts = 0
  LazyStart = FALSE
  Kinds = {"request", "notification", "oversized"}
  Env = {"shutdown", "decode_error", "spawn_error", "client_write_error"}
  MaxMsgs = 1
  MaxSpawns = 1
  MaxEvents = 1
INVARIANTS
  TablesBounded
  RegisteredHoldPermit
  CleanClose
SYMMETRY ClientSymmetry
CHECK_DEADLOCK FALSE
