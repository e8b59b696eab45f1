CONSTANTS
  w1 = w1  w2 = w2
  RunCount = 2
  Scanners = {w1}
  Hosts = {w2}
  Nobody = Nobody
  Stuck = {w2}
  Cancellable = {2}
  Reviewed = {1}
  Doubtful = {1}
  LeaseTTL = 2
  MaxFailures = 1
SPECIFICATION ServiceSpec
PROPERTIES RunsConverge RejectionCancels
CHECK_DEADLOCK FALSE
