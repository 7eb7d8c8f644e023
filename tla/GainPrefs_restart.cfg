CONSTANTS
  Number <- MCNumber
  Settable <- MCSettable
  Lin <- MCLin
SPECIFICATION Spec
INVARIANT RestartKeepsGain
