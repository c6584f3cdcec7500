SPECIFICATION Spec
CONSTANTS
  Requests = {r1}
  Routes = {x1}
  Caps = {30, 80}
  Slips = {0, 20}
  HardCap = 100
  SimOutcomes = {"PASS"}
  MaxSimAge = 0
  MaxClock = 0
  MaxFaults = 0
INVARIANTS AskedWithinCap
