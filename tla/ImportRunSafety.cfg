SPECIFICATION Spec
CONSTANTS
    Null = NoId
    NoId = NoId
    Scenarios <- ScenarioIds
    Names <- ReportNames
    Blank = "blank"
    Places <- ReportPlaces
    TempFile = "stdin"
    Layouts <- RunLayouts
    Fold <- FoldCase
    Content <- ReportContent
    MaxFiles = 2
    OptionSets <- RunOptions
    Retries = 2
    RetryAfters <- Spans
    BackoffCap <- Cap
    MaxDelay <- Delays
INVARIANTS
    TypeOK
    DiscoversExactly
    PostsCarryGroups
    CountsAreEarned
    ZeroMeansRecorded
    RefusalsAreSilent
PROPERTIES
    ImplementsImporter
    ProcessExits
