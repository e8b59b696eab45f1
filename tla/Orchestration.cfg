CONSTANTS
  NodeCount = 4
  Calls = {1, 2}
  EffectClass <- MCEffectClass
  MaxAttempts = 2
  Models = {3}
  Dependencies <- MCDependencies
  NeedsApproval = {1}
  MaxUsage <- MCMaxUsage
  UsageLimit = 3
  Charges = {2}
  MaxCrashes = 2
SPECIFICATION OrchestrationSpec
INVARIANTS NeverSentInDoubt BooksHold TerminalHidesNothing
PROPERTIES SerialContract CancelledRunEnds
CHECK_DEADLOCK FALSE
