\* One connection whose client may fall silent or go away, a queue that may be full,
\* and a second client for whom there is no descriptor left.
SPECIFICATION FairSpec
CONSTANTS
  c1 = c1
  c2 = c2
  Clients    = {c1, c2}
  FirstFd    = 4
  LastFd     = 4
  QueueSize  = 2
  PingAfter  = 1
  PongWithin = 1
  MaxLines   = 3
  MaxPosts   = 3
  MayClose   = {c1, c2}
CHECK_DEADLOCK FALSE
INVARIANTS
  ConnTypeOK
  MailInOrder
PROPERTIES
  SilentClientIsDropped
  LastWordIsHeard
