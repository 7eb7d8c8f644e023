CONSTANTS
  NFrames <- MCNFrames
  MaxPending = 2
  Spurious = TRUE
SPECIFICATION FairSpec
INVARIANT TypeOK
INVARIANT CallbackOnLiveObjects
INVARIANT HeldMutexInScope
INVARIANT OnTheAirMeansWired
INVARIANT ServerOutlivesItsThreads
INVARIANT NotifiedCondvarInScope
PROPERTY StartupCompletes
PROPERTY ShutdownHandshake
PROPERTY QuitEndsIfAsked
