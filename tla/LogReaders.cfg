CONSTANTS
    Keys = {k1, k2}
    Service = service
    Tools = {tool}
    Admins = {admin}
    MaxLines = 3
    PartLines = 1
SPECIFICATION Spec
INVARIANTS
    TypeOK
    KeysReadTheLog
    ReadersMissNothing
SYMMETRY Interchangeable
CHECK_DEADLOCK FALSE
