CONSTANTS
  INT_BITS = 8
  SIZE_BITS = 12
  LL_BITS = 16
  Devices <- WideDevices
  KernelLimits <- MCKernelLimits
  Launches <- MCLaunches
  Widths <- Sides
  Heights <- Sides

SPECIFICATION Spec

INVARIANTS
  RefusesOnlyBeyondLimits
