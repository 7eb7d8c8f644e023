CONSTANTS
  NBands = 6
  MaxAge = 2
  MaxDelay = 1
  MaxThrown = 1
  Folds = {TRUE, FALSE}
  MaxUninited = 1
SPECIFICATION Spec
INVARIANT TypeOK
INVARIANT LevelsSteerTheirBand
INVARIANT LevelsConsistent
INVARIANT OutputCurrent
INVARIANT StaleOnlyIfBassThrown
INVARIANT OutputDelayed
INVARIANT OnAirMatchesSwitches
