\* Two requests at once, a cap of one bridge and of one word.
CONSTANTS
  Reqs = {r1, r2}
  Bridges <- ThreeBridges
  Shared = shared
  Scopes <- TwoOfThem
  Words = {w}
  MaxBridges = 1
  MaxWords = 1
  MaxRequestWords = 1
  MaxVersion = 1
  None = None
SPECIFICATION Spec
SYMMETRY Symmetry
INVARIANTS TypeOK LogoutIsFinal CapsAreKept WordsAreCleaned
PROPERTY LiveKeepsWords
CHECK_DEADLOCK FALSE
