CONSTANTS
  Client = {c1, c2}
  Switch <- MCSwitch
  Bass = "bass_enhancer"
  Decibel = {0, 5, 6}
  Delay = {0, 1}
  Asked <- MCAsked
  Reported <- MCReported
  Garbled = garbled
SPECIFICATION FairSpec
INVARIANT TypeOK
INVARIANT InTurn
INVARIANT ReplyFits
PROPERTY ImplementsSettings
PROPERTY EveryRequestAnswered
CHECK_DEADLOCK FALSE
