SPECIFICATION FairSpec
CONSTANTS
  Chains = {1, 2}
  MaxRestarts = 2
INVARIANTS OrderlyStopFreesPort
PROPERTIES NoOrphan
