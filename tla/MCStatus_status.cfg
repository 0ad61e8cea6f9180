\* One task and the reaper publish, two lives of the daemon, one failed write;
\* in either life the manager may stop with the mutex in its hands.
SPECIFICATION FairSpec
CONSTANTS
  Tasks = {manager}
  Manager = manager
  HasTray = TRUE
  Faults = {"crash", "shutdown", "disk_error", "tray_error", "restart_limit"}
  MaxVersions = 3
  MaxLives = 2
  MaxErrors = 1
INVARIANTS
  TypeOK
  NoLostUpdate
  JoinWakes
PROPERTIES
  FileReplacedWhole
  FileCatchesUp
  TrayCatchesUp
  ShutdownEnds
CHECK_DEADLOCK FALSE
