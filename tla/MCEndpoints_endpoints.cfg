\* Two daemons in turn or at once on one path, a host whose proxy is of
\* either kind or a health check, two lines.
SPECIFICATION FairSpec
CONSTANTS
  Daemons = {d1, d2}
  NoFile = NoFile
  Framed = {f}
  Bytes = {b}
  Probes = {h}
  Limit = 2
  Hosts = 1
INVARIANTS
  TypeOK
  NoOrphanFile
  Reachable
  StaleFileHarmless
  EachOnce
  NoLineLost
PROPERTIES
  Answered
  LeavesNothing
  AnswersFlushed
  ProxyEnds
  FramedReturns
  ConnectionEnds
CHECK_DEADLOCK FALSE
