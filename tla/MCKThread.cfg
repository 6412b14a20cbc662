\* Three threads with up to five items, or three workers with up to three steps and batches.
SPECIFICATION FairSpec
CONSTANTS
  n_threads = 3
  Lengths = {0, 1, 4, 5}
  n_workers = 3
  Steps = {0, 1, 2, 3}
  Batches = {0, 1, 3}
\* The program ends when its threads have ended.
CHECK_DEADLOCK FALSE
INVARIANTS
  CallsAreSound
PROPERTIES
  CallsReturn
