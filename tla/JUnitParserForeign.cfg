SPECIFICATION Spec
CONSTANTS
    Null = NoValue
    NoValue = NoValue
    Documents <- ThreeCases
INVARIANTS
    EveryCaseReported
