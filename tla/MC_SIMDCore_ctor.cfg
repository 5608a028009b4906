CONSTANTS
  EBITS = 4
  MBITS = 3
  LaneArgs <- MCLaneArgs
  Receivers <- MCReceivers
SPECIFICATION Spec
INVARIANT
  Float32x4ConstructorLanes
