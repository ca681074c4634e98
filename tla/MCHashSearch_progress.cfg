\* As many launches as the program makes, 4096, each of them small.
CONSTANTS
  LETTER_COUNT = 14
  BASE = 2
  letters_from_global_id = 1
  letters_to_iter_over = 1
  LONG_RANGE = 1048576
  TargetHashes <- NoWordHasIt
  Garbage = Garbage

SPECIFICATION Spec

INVARIANTS
  ProgressHonest
