SPECIFICATION FairSpec
CONSTANTS
  SizeMod = 32
  AllocMin = 4
  InitCaps <- AllSizes
  CapSet <- PowersOfTwo
  Incs <- AllSizes
  Callers = {"checked", "load"}
  AllocMayFail = TRUE
INVARIANTS BufferTypeOK RoomMade LenWithinCap
PROPERTY ReserveReturns
