SPECIFICATION Spec
CONSTANTS
    Null = NoId
    NoId = NoId
    Scenarios <- ScenarioIds
    Names <- ReportNames
    Blank = "blank"
    Places <- ReportPlaces
    TempFile = "stdin"
    Layouts <- OneFile
    Fold <- FoldCase
    Content <- ReportContent
    MaxFiles = 2
    OptionSets <- Defaults
    Retries = 2
    RetryAfters <- Spans
    BackoffCap <- Cap
    MaxDelay <- Delays
INVARIANTS
    ZeroIsSuccess
