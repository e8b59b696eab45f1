CONSTANTS
  r1 = r1  r2 = r2  draft = draft  check = check  write = write  other = other
  Run = {r1, r2}
  Node = {draft, write, other}
  Graph <- BarrierGraph
  Deps <- ToolDeps
  Tool = {write}
  Capacity = 1
  MaxInFlight = 1
  MaxQueue = 1
  NoRun = NoRun
  NoNode = NoNode
  Recancelled = {}
  ClaimInDoubt = {}
  MaxCrashes = 1
SPECIFICATION FairSpec
INVARIANT SlotsAreOwned
PROPERTIES ParallelContract OwnersLeave
