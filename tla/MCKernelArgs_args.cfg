CONSTANTS
  k1 = k1
  k2 = k2
  Kernels <- MCKernels
  Arity <- MCArity
  Values = {v1, v2}
  Unset = unset
  Counts <- MCCounts
  UINT_RANGE = 8
  MaxLaunches = 2

SPECIFICATION Spec

INVARIANTS
  StackInv
  StopHasCause

PROPERTIES
  RefinesArgStack
