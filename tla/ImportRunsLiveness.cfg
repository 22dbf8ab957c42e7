\* Every run ends, with two processes that crash, stop and start again.
CONSTANTS
  Runners = {w1, w2}
  CommandLine = {}
  Sources = {s1}
  MaxRuns = 2
  MaxAttempts = 1
  MaxLog = 0
SPECIFICATION FairSpec
PROPERTIES
  EveryRunEnds
CHECK_DEADLOCK FALSE
