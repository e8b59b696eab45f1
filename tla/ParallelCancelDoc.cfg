CONSTANTS
  r1 = r1  r2 = r2  draft = draft  check = check  write = write  other = other
  Run = {r1, r2}
  Node = {draft, other}
  Graph <- CallGraph
  Deps <- CallDeps
  Tool = {}
  Capacity = 1
  MaxInFlight = 1
  MaxQueue = 1
  NoRun = NoRun
  NoNode = NoNode
  Recancelled = {r2}
  ClaimInDoubt = {}
  MaxCrashes = 0
SPECIFICATION Spec
INVARIANT CancellationLeavesUnresolved
