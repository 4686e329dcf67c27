SPECIFICATION Spec
CONSTANTS
  NelemMod = 32
  BufLen = 23
  Nelems = {0, 1, 9, 31}
  Ssizes = {0, 3, 4}
  Psizes = {0, 1, 2}
  Rels <- SignedRels
INVARIANTS TypeOK ElementsInside
