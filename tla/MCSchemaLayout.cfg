SPECIFICATION Spec
CONSTANTS
  Sizes = {0, 1, 2, 4, 8}
  MaxFields = 5
  MaxMsgs = 2
INVARIANTS TypeOK NoOverlap FieldsInside ElementsAligned
CHECK_DEADLOCK FALSE
