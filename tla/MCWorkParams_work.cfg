CONSTANTS
  INT_BITS = 8
  SIZE_BITS = 12
  LL_BITS = 16
  Devices <- MCDevices
  KernelLimits <- MCKernelLimits
  Launches <- MCLaunches
  Widths <- Sides
  Heights <- Sides

SPECIFICATION FairSpec

INVARIANTS
  OverlooksOnlyEdges
  RefusesOnlyBeyondLimits
  SizesAreAccepted
  CoversPicture
  ThrowsOnlyWhenThin

PROPERTIES
  SizesReturn
