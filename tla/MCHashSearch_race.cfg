\* One letter on the host, two in the work item's id, one in the item's loop.
CONSTANTS
  LETTER_COUNT = 4
  BASE = 2
  letters_from_global_id = 2
  letters_to_iter_over = 1
  LONG_RANGE = 10
  TargetHashes <- MCTargetHashes
  Garbage = Garbage

SPECIFICATION FairSpec

INVARIANTS
  TypeOK
  IInv
  ReportedWordCorrect
  NotFoundIsExhaustive
  LaunchArgsFresh
  HostSeesFinishedLaunch
  AbortHasCause

PROPERTIES
  NoOverwrite
  Terminates
  RefinesWordSearch
