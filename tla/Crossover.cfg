SPECIFICATION Spec
CONSTANTS
  MaxBlock = 3
INVARIANTS
  TypeOK
  SumIsFlat
  BandsBetweenTheirCuts
  ChannelsApart
  CalledOnce
  GarbageKeepsToItsChannel
PROPERTIES
  OneStreamPerFilter
CHECK_DEADLOCK FALSE
