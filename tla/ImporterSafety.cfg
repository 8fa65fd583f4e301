SPECIFICATION Spec
CONSTANTS
    Null = NoId
    NoId = NoId
    Scenarios <- ScenarioIds
    Inputs <- MCInputs
    OptionSets <- AllOptions
INVARIANTS
    GroupsExact
    CountsExact
    SubmitsOnlyComplete
    EveryGroupTried
    ExitMeaning
PROPERTIES
    RunEnds
