SPECIFICATION FairSpec
CONSTANTS
  Clients = {1, 2, 3}
  Name <- MCName
  BadInput = {3}
  MayQuit = {2}
  LenSz = 2
  ByteMod = 4
  BufferLen = 2
  Hello = 3
INVARIANTS TypeOK RightAnswer NothingLost
PROPERTY EveryRequestAnswered
CHECK_DEADLOCK FALSE
