CONSTANTS
  NBands = 2
  MaxAge = 1
  MaxDelay = 0
  MaxThrown = 2
  Folds = {TRUE}
  MaxUninited = 4
SPECIFICATION Spec
INVARIANT LiveDataIsLive
