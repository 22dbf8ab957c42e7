CONSTANTS
  Workers = {w1, w2}
  MaxSite = 2
  PageSize = 1
  MaxAttempts = 2
SPECIFICATION Spec
SYMMETRY Symmetry
CHECK_DEADLOCK FALSE
INVARIANTS TypeOK ToldAtMostOnce StepsInOrder DoneLeftNothingOut
