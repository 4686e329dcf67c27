SPECIFICATION MsgSpec
CONSTANTS
  NelemMod = 64
  Clients <- AllClients
  StrLens = {2}
  KindShape <- IntKinds
  Garbage <- AllBits
  Cap = 40
  Junk <- AnySizes
  MaxElems = 3
  MaxBits = 9
INVARIANTS TypeOK AlwaysResizable WireWellFormed PoolReadsBack
PROPERTY SerializeKeepsMessage
CHECK_DEADLOCK FALSE
