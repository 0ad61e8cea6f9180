\* Liveness: crashes, broken channels and failed spawns, one place in the queue.
SPECIFICATION UntimedSpec
CONSTANTS
  Clients = {a}
  MaxActiveClients = 1
  MAX_QUEUE = 1
  MAX_PENDING = 4
  MaxRestarts = 0
  LazyStart = FALSE
  Kinds = {"request"}
  Env = {"client_write_error", "child_write_error", "spawn_error"}
  MaxMsgs = 2
  MaxSpawns = 2
  MaxEvents = 1
PROPERTIES
  EveryRequestAnswered
  CrashAnswered
  SenderGetsOn
CHECK_DEADLOCK FALSE
