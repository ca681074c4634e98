CONSTANTS
  Lengths = {0, 1, 3}
  PreambleLengths = {0, 2}
  MaxSaves = 3

SPECIFICATION Spec

INVARIANTS
  SourceAsMeasured
  NothingHeld
