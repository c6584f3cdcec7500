SPECIFICATION FairSpec
CONSTANTS
  Jobs = {j1, j2}
  Signed = {j1}
  Workable = {j1, j2}
  NoJob = NoJob
  Callers = {c1}
  Sweeps = {s1}
  Slots = {1, 2}
  MaxFaults = 1
INVARIANTS TypeOK RetiredIsSettled PaidWorkOnly
PROPERTIES KeepsLedger FundedIsServed
