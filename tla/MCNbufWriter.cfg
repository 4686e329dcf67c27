SPECIFICATION MsgSpec
CONSTANTS
  NelemMod = 64
  Clients <- AllClients
  StrLens = {2}
  KindShape <- IntKinds
  Garbage <- AllBits
  MaxElems = 3
  MaxBits = 9
INVARIANTS TypeOK ObjectsTile PaddingZero PointersLeadToObjects PythonReadsAlike ReadsBack
CHECK_DEADLOCK FALSE
