CONSTANTS
  MAX_KERNEL_COUNT = 2
  MAX_ALLOCATIONS_COUNT = 2
  MaxObjects = 8
  Catches <- HandledInside

SPECIFICATION Spec

INVARIANTS
  UsableWhileInitialized
