SPECIFICATION Spec
CONSTANTS
    p1 = p1
    p2 = p2
    Classes <- Dashboard
    Documents <- DocumentsOf
    Programs <- ProgramsOf
    Changes <- ChangesOf
    MaxChanges = 1
CHECK_DEADLOCK FALSE
PROPERTIES
    UntouchedCollectionsStay
