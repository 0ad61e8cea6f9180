\* README.md:185 of the repository, with a restart limit of one.
SPECIFICATION FairSpec
CONSTANTS
  Clients = {a}
  MaxActiveClients = 1
  MAX_QUEUE = 2
  MAX_PENDING = 4
  MaxRestarts = 1
  LazyStart = FALSE
  Kinds = {"request"}
  Env = {}
  MaxMsgs = 1
  MaxSpawns = 2
  MaxEvents = 1
PROPERTIES
  EveryRequestAnswered
CHECK_DEADLOCK FALSE
