\* Who is where: sessions that come, go and are replaced, while rooms are
\* created, joined and left.  No clock and no game.
SPECIFICATION WatchedSpec
CONSTANTS
  w1 = w1
  w2 = w2
  alice = alice
  bob = bob
  Workers = {w1, w2}
  Ids = {alice, bob}
  Members <- OneMember
  Problems = {"tiger"}
  Chatter = {"hi"}
  Capacity = 2
  TotalRound = 1
  ReadyTime = 1
  SubmitTime = 1
  RoundResultTime = 1
  TotalResultTime = 1
  TimerCap = 2
  Dts = {}
  MaxTokens = 3
  MaxRooms = 2
  MaxExp = 0
SYMMETRY WorkerSymmetry
CHECK_DEADLOCK FALSE
INVARIANTS
  OneSessionPerAccount
  InRoomIsListed
  RoomFits
PROPERTIES
  LeaveAnswerIsTrue
  
  PoliteClientsLeaveNothing
