CONSTANTS
  EBITS = 2
  MBITS = 1
  LaneArgs = {}
  Receivers = {}
  ByteLengths <- MCByteLengths
  FirstArgs <- MCFirstArgs
  OffsetArgs <- MCOffsetArgs
  LengthArgs <- MCLengthArgs
  Indices <- MCIndices
  Elements <- MCElements
  MaxBuffers = 2
  MaxViews = 2
SPECIFICATION ArraySpec
INVARIANTS
  ArrayTypeOK
PROPERTIES
  ArraySpecRefined
