SPECIFICATION Spec
CONSTANTS
  Texts    <- MCTexts
  Samples  <- MCSamples
  FirstText <- Nvda
  Policies <- MCPolicies
  Captures <- MCCaptures
  MaxRuns  = 1
INVARIANTS
  OneRequestAtATime
  ReceiptReplays
  LimitsPersist
  ComparisonIsOfTheReceipt
PROPERTIES
  KeepsSession
  RestoreReturns
  StricterShortlistsLess
  BusyEnds
