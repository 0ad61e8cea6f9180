\* README.md:8 of the repository.
SPECIFICATION Spec
CONSTANTS
  Clients = {a, b}
  MaxActiveClients = 2
  MAX_QUEUE = 2
  MAX_PENDING = 4
  MaxRestarts = 0
  LazyStart = FALSE
  Kinds = {"initialize"}
  Env = {}
  MaxMsgs = 1
  MaxSpawns = 1
  MaxEvents = 1
INVARIANTS
  InitializeOnce
SYMMETRY ClientSymmetry
CHECK_DEADLOCK FALSE
