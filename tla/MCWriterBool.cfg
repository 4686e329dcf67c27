SPECIFICATION MsgSpec
CONSTANTS
  NelemMod = 64
  Clients <- FewClients
  StrLens = {2}
  KindShape <- BoolKinds
  Garbage <- AllBits
  MaxElems = 3
  MaxBits = 9
PROPERTY FirstValueKept
CHECK_DEADLOCK FALSE
