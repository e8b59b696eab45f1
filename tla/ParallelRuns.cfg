CONSTANTS
  r1 = r1  r2 = r2  draft = draft  check = check  write = write  other = other
  Run = {r1, r2}
  Node = {draft, check, write, other}
  Graph <- ToolGraph
  Deps <- ToolDeps
  Tool = {write}
  Capacity = 2
  MaxInFlight = 2
  MaxQueue = 1
  NoRun = NoRun
  NoNode = NoNode
  Recancelled = {r2}
  ClaimInDoubt = {r1}
  MaxCrashes = 1
SPECIFICATION Spec
INVARIANTS CapacityHolds RecordedBeforeEntry ToolHasTheRun TerminalIsIdle
CHECK_DEADLOCK FALSE
