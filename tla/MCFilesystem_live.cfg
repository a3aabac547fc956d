SPECIFICATION LiveSpec
CONSTANTS
    Nobody = Nobody
    Scrapes = {s1, s2}
    Labels <- AllLabels
    MountTables <- LiveTables
    MaxLines = 3
    ExcludedMountPoints <- SkipMountPoints
    ExcludedFSTypes <- SkipFSTypes
    StatWorkers = 0
    Flaky <- NfsOnly
PROPERTIES
    HungMountsSkipped
    StuckMountResumes
    ScrapeReturns
