SPECIFICATION FairSpec
CONSTANTS
  Requests = {r1, r2}
  Callers = {c1}
  Nobody = Nobody
  Ports = {p1, p2}
  GlobalMax = 1
  CallerMax = 1
  StepCount = 2
  Configs <- MCConfigs
  Shared = TRUE
INVARIANTS WorkIsMetered SignedWithinBounds ExitLosesNoAnswer
PROPERTIES RequestsEnd ShutdownCompletes
CHECK_DEADLOCK FALSE
