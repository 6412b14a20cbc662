\* Texts of up to six pieces.
SPECIFICATION Spec
CONSTANTS
  STARTING_CAPACITY = 2
  OBJECT_MAX_CAPACITY = 4
  ARRAY_MAX_CAPACITY = 4
  MAX_NESTING = 1
  Pieces <- AllPieces
  MaxPieces <- PieceCounts
  Texts <- AllTexts
  Keys <- AllKeys
  Fresh <- AllFresh
  MaxNodes <- NodeCounts
  MaxLeaks <- LeakCounts
\* A text that has all its pieces is done.
CHECK_DEADLOCK FALSE
INVARIANT ErrorsAreRefused
