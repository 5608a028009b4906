CONSTANTS
  EBITS = 3
  MBITS = 2
  LaneArgs = {}
  Receivers = {}
  Operands <- MCOperands
  Scalars <- MCScalars
  Counts <- MCCounts
  Masks <- MCMasks
SPECIFICATION OpsSpec
INVARIANTS
  OpsTypeOK
  OperandKindsChecked
  FloatComparisonsIEEE
  UnsignedCompareOrder
  ShiftsAreLaneShifts
  ShuffleMaskDomain
  SelectIsBitwiseBlend
  WithReplacesOneLane
  FloatBitwiseIsIntBitwise
  IntArithWraps
