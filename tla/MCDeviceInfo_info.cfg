CONSTANTS
  cpu = cpu
  gpu1 = gpu1
  gpu2 = gpu2
  Machines <- MCMachines
  Gpus <- MCGpus
  Codes <- MCCodes
  Unset = unset

SPECIFICATION Spec

INVARIANTS
  OnlyOwnFields
  ListsEverything
  CodeReportedWasReturned
