CONSTANTS
  NFrames <- MCNFrames
  MaxPending = 1
  Spurious = FALSE
SPECIFICATION Spec
INVARIANT AnnouncedMeansServed
