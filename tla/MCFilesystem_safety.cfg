SPECIFICATION Spec
CONSTANTS
    Nobody = Nobody
    Scrapes = {s1, s2}
    Labels <- AllLabels
    MountTables <- TwoTables
    MaxLines = 2
    ExcludedMountPoints <- SkipMountPoints
    ExcludedFSTypes <- SkipFSTypes
    StatWorkers = 2
    Flaky <- NfsOnly
SYMMETRY SlotSymmetry
INVARIANTS
    TypeOK
    StuckOutstanding
    NoLineTwice
    CompleteWithoutStuck
    SeriesUnique
