\* Two processes, two starts, two requests for one connection; statements
\* fail or return nothing, processes are signalled and crash.
SPECIFICATION FairSpec
CONSTANTS
  NULL = NULL
  Procs = {p1, p2}
  Environments <- MCEnvironments
  Requests = {q1, q2}
  PoolSize = 1
  DefaultAccess = 3
  MinAccess = 2
  DefaultRefresh = 3
  MinRefresh = 2
  Second = 2
  Hour = 2
  Half = 8
  MaxStarts = 2
  Faults = {"failed", "unread", "crash"}
INVARIANTS
  TypeOK
  ServingHasClient
  RivalsDoNotStopAStart
  TokensOutliveProcesses
  TokensAreBornAlive
  AnsweredSignInIsStored
PROPERTIES
  EveryStopEnds
  EveryRequestEnds
\* The starts and the requests run out.
CHECK_DEADLOCK FALSE
