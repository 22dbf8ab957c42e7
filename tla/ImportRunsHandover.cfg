\* One run that three processes claim, lose, hand back and take over.
CONSTANTS
  Runners = {w1, w2, w3}
  CommandLine = {}
  Sources = {s1}
  MaxRuns = 1
  MaxAttempts = 3
  MaxLog = 3
SPECIFICATION Spec
SYMMETRY Symmetry
INVARIANTS
  TypeOK
  AtMostOneOwner
  WorkInAttemptOrder
PROPERTIES
  EndedStays
  ImplementsLease
CHECK_DEADLOCK FALSE
