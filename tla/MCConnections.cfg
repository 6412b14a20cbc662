\* Two connections, a queue of two messages, clients that may go away.
SPECIFICATION Spec
CONSTANTS
  c1 = c1
  c2 = c2
  Clients    = {c1, c2}
  FirstFd    = 4
  LastFd     = 5
  QueueSize  = 2
  PingAfter  = 0
  PongWithin = 0
  MaxLines   = 2
  MaxPosts   = 1
  MayClose   = {c1, c2}
SYMMETRY ClientSymmetry
CHECK_DEADLOCK FALSE
INVARIANTS
  MailIsMine
PROPERTY RequestsInOrder
