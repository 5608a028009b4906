CONSTANTS
  EBITS = 3
  MBITS = 2
  LaneArgs = {}
  Receivers = {}
  Operands <- MCSwizzleOperands
  Scalars <- MCScalars
  Counts <- MCCounts
  Masks <- MCMasks
SPECIFICATION SwizzleSpec
INVARIANTS
  SwizzleNamesSelectLanes
