\* Small containers, arrays and texts, one of them at a time.
SPECIFICATION Spec
CONSTANTS
  Keys = {0, 1, 2, 3, 4, 5, 6}
  Vals = {1}
  Hashes <- MCHashes
  Sizes = {0, 5}
  MaxEntries = 3
  MaxBuckets = 32
  TreeKeys = {1, 2, 3, 4, 5, 6, 7, 8, 9}
  BlockSize = 48
  KeySize = 4
  MaxKeys = 9
  ListData = {"a", "b"}
  MaxNodes = 4
  SortKeys = {1, 2, 3}
  MaxLength = 7
  SMALL = 1
  Chars = {"a", "b", " "}
  Separators = {" "}
  Patterns <- MCPatterns
  MaxText = 7
\* Arrays and texts end at their bounds.
CHECK_DEADLOCK FALSE
INVARIANTS
  StructuresAreSound
PROPERTIES
  ContainersHoldWhatIsPut
