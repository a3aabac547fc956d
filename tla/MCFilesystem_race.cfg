SPECIFICATION Spec
CONSTANTS
    Nobody = Nobody
    Scrapes = {s1, s2}
    Labels <- AllLabels
    MountTables <- RaceTable
    MaxLines = 2
    ExcludedMountPoints <- SkipMountPoints
    ExcludedFSTypes <- SkipFSTypes
    StatWorkers = 2
    Flaky <- NfsOnly
INVARIANT
    EveryMountReported
