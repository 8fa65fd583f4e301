SPECIFICATION Spec
CONSTANTS
    p1 = p1
    p2 = p2
    Classes <- Schemas
    Documents <- DocumentsOf
    Programs <- ProgramsOf
    Changes <- ChangesOf
    MaxChanges = 1
CHECK_DEADLOCK FALSE
INVARIANTS
    TypeOK
    WriteBackExact
    ChangesArrive
    UnwritableIsOwnFault
    WrittenIsReadable
    WriteBackSettles
PROPERTIES
    BuiltSparesOthers
    WriteBackRestoresView
