CONSTANTS
  Number <- MCNumber
  Settable <- MCSettable
  Lin <- MCLin
SPECIFICATION Spec
INVARIANT TypeOK
INVARIANT AnsweredIsSaved
INVARIANT ApartOnlyByPair
PROPERTY StableAcrossRestarts
