SPECIFICATION FairSpec
CONSTANTS
    Nobody = Nobody
    Scrapes = {s1, s2}
    Filenames = 2
    MaxMtime = 2
    Malformed <- Broken
    Dated <- WithDate
    BadDate <- WithBadDate
INVARIANTS
    TypeOK
    CacheCoherent
    TornOnlyByOverlap
PROPERTIES
    SettlesOnDisk
