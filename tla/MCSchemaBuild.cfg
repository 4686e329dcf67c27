SPECIFICATION Spec
CONSTANTS
    Inputs <- MCInputs
    Default = Default
    EnumMod = 4
    MaxTypes = 15
    MaxScalars = 4
INVARIANTS EnumsAsDeclared TypesResolve AccessorsApart SchemaReadsBack
CHECK_DEADLOCK FALSE
