SPECIFICATION Spec
CONSTANTS
    Client = {c1}
    LOG_BUF_SIZE = 1
    MaxInstance = 2
    MaxLine = 2
    None = None
CHECK_DEADLOCK FALSE
INVARIANTS
    TypeOK
    NoLineTwice
    LiveComplete
    NothingSkipped
PROPERTIES
    StreamEnds
    LinesLogged
