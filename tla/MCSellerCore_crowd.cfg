SPECIFICATION TimerSpec
CONSTANTS
  Jobs = {j1}
  Signed = {j1}
  Workable = {j1}
  NoJob = NoJob
  Callers = {c1, c2}
  Sweeps = {s1}
  Slots = {1, 2, 3}
  MaxFaults = 3
INVARIANTS OneDelivery NoRedelivery
PROPERTIES NeverPinned
