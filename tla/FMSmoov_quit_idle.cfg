CONSTANTS
  NFrames <- MCNFrames
  MaxPending = 1
  Spurious = FALSE
SPECIFICATION FairSpec
PROPERTY QuitEnds
