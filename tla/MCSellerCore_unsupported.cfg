SPECIFICATION Spec
CONSTANTS
  Jobs = {j1}
  Signed = {j1}
  Workable = {j1}
  NoJob = NoJob
  Callers = {c1}
  Sweeps = {s1}
  Slots = {1, 2}
  MaxFaults = 1
PROPERTIES UnsupportedIsSkipped
