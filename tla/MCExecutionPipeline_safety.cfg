SPECIFICATION FairSpec
CONSTANTS
  Requests = {r1}
  Routes = {x1, x2}
  Caps = {30, 80}
  Slips = {0, 60}
  HardCap = 100
  SimOutcomes = {"PASS", "UNBOUND", "FAIL", "SKIP"}
  MaxSimAge = 0
  MaxClock = 1
  MaxFaults = 1
INVARIANTS Authorized HonestReceipts InsideMachine OrdersAccounted
PROPERTIES KeepsSwapLedger RequestsAdvance RequestsEnd
