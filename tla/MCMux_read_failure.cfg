\* README.md:186 of the repository.
SPECIFICATION FairSpec
CONSTANTS
  Clients = {a}
  MaxActiveClients = 1
  MAX_QUEUE = 2
  MAX_PENDING = 4
  MaxRestarts = 0
  LazyStart = FALSE
  Kinds = {"request"}
  Env = {"reader_error"}
  MaxMsgs = 1
  MaxSpawns = 2
  MaxEvents = 1
PROPERTIES
  ReadFailureRestarts
CHECK_DEADLOCK FALSE
