CONSTANTS
  EBITS = 4
  MBITS = 3
  LaneArgs <- MCLaneArgs
  Receivers <- MCReceivers
SPECIFICATION Spec
INVARIANTS
  TypeOK
  FactoryLanes
  BoxedAgreesWithRaw
  ReceiverChecked
