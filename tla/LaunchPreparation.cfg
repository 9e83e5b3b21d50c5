SPECIFICATION Spec
CONSTANTS
    Loaders = {"launch", "other"}
    NoFile = NoFile
    NoLimit = NoLimit
    MaxEdits = 1
    Contents <- MCContents
    Commands <- MCCommands
    Scenarios <- MCScenarios
    StoredLabels <- MCStoredLabels
INVARIANTS
    TypeOK
    ConfigSurvives
    RestartKeepsSession
    PreparationFailsCleanly
    PassthroughIsSound
