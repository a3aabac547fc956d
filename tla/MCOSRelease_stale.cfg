SPECIFICATION Spec
CONSTANTS
    Nobody = Nobody
    Scrapes = {s1, s2}
    Filenames = 2
    MaxMtime = 2
    Malformed <- Broken
    Dated <- WithDate
    BadDate <- WithBadDate
INVARIANT
    UpToDateWasLoaded
