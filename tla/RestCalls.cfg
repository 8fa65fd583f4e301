SPECIFICATION Spec
CONSTANTS
    Endpoints <- AllEndpoints
    Classes <- Schemas
    Arguments <- ArgumentsOf
    Documents <- DocumentsOf
    Statuses <- All
    HTTPStatus <- Known
CHECK_DEADLOCK FALSE
INVARIANTS
    TypeOK
    RefusedCallsNeverAct
    ResultTellsSuccess
    FaithfulAnswersArrive
PROPERTIES
    CallEnds
