\* README.md:6 of the repository.
SPECIFICATION Spec
CONSTANTS
  Clients = {a}
  MaxActiveClients = 1
  MAX_QUEUE = 2
  MAX_PENDING = 4
  MaxRestarts = 0
  LazyStart = FALSE
  Kinds = {"request"}
  Env = {"child_write_error"}
  MaxMsgs = 1
  MaxSpawns = 2
  MaxEvents = 2
INVARIANTS
  OneChild
CHECK_DEADLOCK FALSE
