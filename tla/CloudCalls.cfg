CONSTANTS
  owner = owner  org = org  boss = boss  w1 = w1  w2 = w2  c1 = c1  c2 = c2  a1 = a1  a2 = a2
  Owner = owner
  Organization = org
  Workers = {w1, w2}
  Approvers = {owner, boss}
  NoWorker = NoWorker
  NoCall = NoCall
  NoApproval = NoApproval
  NoActor = NoActor
  Revocable = {}
  MaxUnits = 3
  LeaseTTL = 1
  MaxEpoch = 3
  Calls = {c1, c2}
  Approvals = {a1, a2}
  Reserve <- MCReserve
  ActualUnits = {0, 2}
  MaxCalls = 2
SPECIFICATION Spec
INVARIANTS RunningIsClean AtMostOneEffect NotExecutedIsTrue TerminalIsSettled ApprovalsBackCalls CountersMatchRows ExposureIsBounded
PROPERTIES TerminalIsFinal EffectContract
CHECK_DEADLOCK FALSE
SYMMETRY Symmetry
