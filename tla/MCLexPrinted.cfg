SPECIFICATION Spec
CONSTANTS
  Sources <- AllSources
  InitCap = 32
  UMax = 63
  IMax = 31
INVARIANT PrintedReadsBack
CHECK_DEADLOCK FALSE
