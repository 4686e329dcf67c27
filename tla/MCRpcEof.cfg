SPECIFICATION Spec
CONSTANTS
    Clients = {1, 2}
    Name <- MCName
    BadInput = {2}
    MayQuit = {}
    LenSz = 2
    ByteMod = 4
    BufferLen = 8
    Hello = 3
CHECK_DEADLOCK FALSE
INVARIANT NoUndefinedBehaviour
