SPECIFICATION Spec
CONSTANTS
    Null = NoId
    NoId = NoId
    Scenarios <- ScenarioIds
    Inputs <- SmallInputs
    OptionSets <- Defaults
INVARIANTS
    CancelIsGraceful
