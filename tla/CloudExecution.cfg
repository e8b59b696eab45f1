CONSTANTS
  owner = owner  org = org  boss = boss  w1 = w1  w2 = w2
  Owner = owner
  Organization = org
  Workers = {w1, w2}
  Approvers = {owner, boss}
  NoWorker = NoWorker
  Revocable = {owner}
  MaxUnits = 5
  LeaseTTL = 1
  MaxEpoch = 2
  MaxSteps = 3
  MaxTools = 2
  MaxCalls = 5
  Decision <- MCDecision
  Answers = {"final", "tool", "retry"}
  Reserve <- MCReserve
  Spend <- MCSpend
SPECIFICATION HostedSpec
INVARIANTS RunningIsOwned TranscriptOwnsUsage ApprovalEndsTheWait ClosedRunIsSettled
PROPERTIES HostedContract CheckpointMovesForward
CHECK_DEADLOCK FALSE
SYMMETRY Symmetry
