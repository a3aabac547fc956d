SPECIFICATION Spec
CONSTANTS
    Scrapes = {s1, s2}
    CPUs = {c1}
    Active = {c1}
    Fields = {user}
    JumpBack = 2
    Jitter = 0
    MaxCount = 2
    MaxEpoch = 1
SYMMETRY SlotSymmetry
PROPERTY
    ResetMeansHotplug
