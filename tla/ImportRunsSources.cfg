\* An importer and the command line compete for two runs, of one source or
\* of two.
CONSTANTS
  Runners = {w1, w2}
  CommandLine = {w2}
  Sources = {s1, s2}
  MaxRuns = 2
  MaxAttempts = 2
  MaxLog = 0
SPECIFICATION Spec
SYMMETRY Symmetry
INVARIANTS
  OneRunningPerSource
  SourceExclusive
CHECK_DEADLOCK FALSE
