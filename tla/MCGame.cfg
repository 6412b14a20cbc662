\* Games in one room with two players and two sentences: answers, sessions and
\* restarts against the clock.
SPECIFICATION Spec
CONSTANTS
  w1 = w1
  w2 = w2
  alice = alice
  bob = bob
  Workers = {w1, w2}
  Ids = {alice, bob}
  Members <- TwoMembers
  Problems = {tiger, lion}
  Chatter = {}
  Capacity = 2
  TotalRound = 2
  ReadyTime = 0
  SubmitTime = 1
  RoundResultTime = 0
  TotalResultTime = 0
  TimerCap = 2
  Dts = {1}
  MaxTokens = 2
  MaxRooms = 1
  MaxExp = 500
SYMMETRY GameSymmetry
CHECK_DEADLOCK FALSE
INVARIANTS
  TypeOK
  PhasesFit
  ScoreSheetOK
PROPERTIES
  FirstAnswerStands
  PlayersStay
  PlayersHearEveryPhase
  RoomsPlayQuiz
  GamesEndFairly
