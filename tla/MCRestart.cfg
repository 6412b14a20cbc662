\* Two clients, each with an account or both with the same, a queue of two messages,
\* one restart of the main server.
SPECIFICATION FairSystem
CONSTANTS
  w1 = w1
  w2 = w2
  alice = alice
  bob = bob
  Workers = {w1, w2}
  Ids = {alice, bob}
  Members <- MCMembers
  Homes <- MCHomes
  Problems = {}
  Chatter = {}
  Dts = {}
  MaxTokens = 2
  MaxRooms = 0
  MaxExp = 0
  QueueSize = 2
  MaxRuns = 2
  Capacity = 2
  TotalRound = 1
  ReadyTime = 1
  SubmitTime = 1
  RoundResultTime = 1
  TotalResultTime = 1
  TimerCap = 2
CHECK_DEADLOCK FALSE
INVARIANT HeldTokenIsMine
PROPERTIES EndedByItsUser 
