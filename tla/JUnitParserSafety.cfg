SPECIFICATION Spec
CONSTANTS
    Null = NoValue
    NoValue = NoValue
    Documents <- AllDocuments
INVARIANTS
    TypeOK
    ExactBeforeForeign
    CasesInOrder
PROPERTIES
    ParseEnds
