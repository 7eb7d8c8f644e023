CONSTANTS
  N = 4
  Group <- MCGroup
  Word <- MCWord
  MaxBlocks = 3
SPECIFICATION Spec
INVARIANT TypeOK
INVARIANT RegularFields
PROPERTY SafeMessage
