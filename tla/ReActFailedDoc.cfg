CONSTANTS
  read = read  write = write  p1 = p1  p2 = p2
  Calls = {read, write}
  NoCall = NoCall
  EffectClass <- MCEffectClass
  MaxAttempts = 2
  Procs = {p1}
  Policy <- MCPolicy
  Overlap = FALSE
  MaxSteps = 3
  MaxGrants = 1
  MaxCrashes = 2
  MaxRev = 12
SPECIFICATION Spec
INVARIANT FailedNeverRan
CHECK_DEADLOCK FALSE
