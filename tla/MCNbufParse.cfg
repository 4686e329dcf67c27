SPECIFICATION Spec
CONSTANTS
  Schema <- MCSchema
  EnumValues <- MCEnum
  Inputs <- MCInputs
  IntMod = 4
  EnumMod = 4
  WordMod = 64
  Exact <- MCExact
  Digits <- MCDigits
  Largest <- MCLargest
  Inf = 999
INVARIANTS TypeOK StringsOwned FailsIffReported AcceptedAsWritten PrintedIsParsed
CHECK_DEADLOCK FALSE
