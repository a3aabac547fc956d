SPECIFICATION FairSpec
CONSTANTS
    Nobody = Nobody
    cpu = cpu
    os = os
    ntp = ntp
    unknown = unknown
    Calls = {h1, h2}
    Names = {cpu, os, ntp}
    Default = {cpu, os}
    FilterLists <- SomeFilters
    Faulty = {os}
INVARIANTS TypeOK SharedInstance ExactlyAsked
PROPERTY CallReturns
