CONSTANTS
  NodeCount = 4
  Calls = {1, 2}
  EffectClass <- MCEffectClass
  MaxAttempts = 2
  Models = {3}
  Dependencies <- MCDependencies
  NeedsApproval = {1}
  MaxUsage <- MCMaxUsage
  UsageLimit = 3
  Charges = {1, 2}
  MaxCrashes = 1
SPECIFICATION OrchestrationSpec
INVARIANT ResultsAreRebuilt
CHECK_DEADLOCK FALSE
