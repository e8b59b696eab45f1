CONSTANTS
  p1 = p1  r1 = r1  s1 = s1
  TurnCount = 2
  HistoryLimit = 1
  Sources = {s1}
  Procs = {p1}
  Readers = {r1}
  Refusing = {1}
  MaxCrashes = 1
SPECIFICATION SessionSpec
INVARIANT OneTurnUnderWay
PROPERTIES OnlyCurrentIsUsed DeletionFinishes
CHECK_DEADLOCK FALSE
