\* One player, the clock and turns that end early: games that must come to their end.
SPECIFICATION LoopSpec
CONSTANTS
  w1 = w1
  alice = alice
  Workers = {w1}
  Ids = {alice}
  Members <- OneMember
  Problems = {"tiger"}
  Chatter = {}
  Capacity = 2
  TotalRound = 2
  ReadyTime = 1
  SubmitTime = 1
  RoundResultTime = 1
  TotalResultTime = 1
  TimerCap = 2
  Dts = {1}
  MaxTokens = 2
  MaxRooms = 1
  MaxExp = 1000
CHECK_DEADLOCK FALSE
PROPERTIES
  GameEnds
