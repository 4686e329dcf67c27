SPECIFICATION Spec
CONSTANTS
  Sources <- MCSources
  InitCap = 2
  UMax = 63
  IMax = 31
INVARIANTS LinesCounted  NumbersAsWritten StringsAsWritten PlainReadsBack
PROPERTIES ReadsToEnd
CHECK_DEADLOCK FALSE
