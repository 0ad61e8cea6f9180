\* main.rs:76 of the repository.
SPECIFICATION Spec
CONSTANTS
  Clients = {a}
  MaxActiveClients = 1
  MAX_QUEUE = 2
  MAX_PENDING = 4
  MaxRestarts = 1
  LazyStart = FALSE
  Kinds = {"request"}
  Env = {}
  MaxMsgs = 1
  MaxSpawns = 2
  MaxEvents = 2
INVARIANTS
  RestartLimit
CHECK_DEADLOCK FALSE
