CONSTANTS
  read = read  write = write  p1 = p1  p2 = p2
  Calls = {read, write}
  NoCall = NoCall
  EffectClass <- MCEffectClass
  MaxAttempts = 2
  Procs = {p1, p2}
  Policy <- MCPolicy
  Overlap = TRUE
  MaxSteps = 2
  MaxGrants = 2
  MaxCrashes = 1
  MaxRev = 6
SPECIFICATION Spec
INVARIANTS AttemptsWithinBudget ApprovalGatesExecution
PROPERTIES TranscriptIsAppendOnly
CHECK_DEADLOCK FALSE
SYMMETRY Symmetry
