SPECIFICATION Spec
CONSTANTS
  IntMax = 700
  Longs <- MCLongs
  TIMEOUT = 300
  KA_INTERVAL = 30
  NoNumber = NoNumber
  Interfaces <- MCInterfaces
  MaxIfs = 2
  low_port = 4
  high_port = 1
  Chars <- MCChars
  MaxLen = 6
  Ranks = {1, 12, 13}
  Cpus = {0, 2}
  Users <- MCUsers
  NumProcs = 13
  MessageSize = 15
  Stray = {"a"}
INVARIANTS
  TypeOK TimeoutsSafe
  AddressBest SocketUsable SearchComplete
  SplitRight RegisterIntact PlainEntered PublishedReadBack
CHECK_DEADLOCK FALSE
