CONSTANTS
  MAX_KERNEL_COUNT = 2
  MAX_ALLOCATIONS_COUNT = 2
  MaxObjects = 9
  Catches <- AnyCatch

SPECIFICATION Spec

INVARIANTS
  TypeOK
  LifecycleInv
  SlotsReleasedOnce
  OnlyOrphansSurvive
  EveryObjectReleasedOnce
  UsableUntilCaught
