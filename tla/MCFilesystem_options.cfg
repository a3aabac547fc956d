SPECIFICATION Spec
CONSTANTS
    Nobody = Nobody
    Scrapes = {s1}
    Labels <- AllLabels
    MountTables <- OptionTable
    MaxLines = 2
    ExcludedMountPoints <- SkipMountPoints
    ExcludedFSTypes <- SkipFSTypes
    StatWorkers = 2
    Flaky <- NfsOnly
INVARIANT
    ExposedOnce
