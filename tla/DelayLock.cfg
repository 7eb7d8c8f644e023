CONSTANTS
  BufSize = 3
  Delays <- MCDelays
  MaxFrames = 24
  MaxChanges = 3
SPECIFICATION LockSpec
INVARIANT TypeOK
INVARIANT HoldsDelayedFrames
INVARIANT MeetOnlyIfRobbed
INVARIANT FreeWhenNobodyInside
PROPERTY ExactDelay
CHECK_DEADLOCK FALSE
