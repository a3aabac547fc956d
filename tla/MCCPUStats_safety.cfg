SPECIFICATION Spec
CONSTANTS
    Scrapes = {s1, s2}
    CPUs = {c1, c2}
    Active = {c1}
    Fields = {user}
    JumpBack = 2
    Jitter = 1
    MaxCount = 2
    MaxEpoch = 1
SYMMETRY SlotSymmetry
INVARIANTS
    TypeOK
    CacheMatchesReading
    IdleLeadBounded
PROPERTIES
    NoSpuriousReset
    ResetIsWhole
