SPECIFICATION Spec
CONSTANTS
  None = None
  Platforms <- MCPlatforms
  Tokens <- MCTokens
  Chains = {1, 56}
  Assets = {"USDC", "BNB"}
  Settings <- MCSettings
  Constitutions <- MCConstitutions
  Portfolios <- MCPortfolios
  Intents <- MCIntents
  Reps <- MCReps
  Ages <- MCAges
  Slips <- MCSlips
  Quotable = {"USDC", "BNB"}
  MaxRoutes = 2
INVARIANTS PremiumWithinCeiling
CHECK_DEADLOCK FALSE
