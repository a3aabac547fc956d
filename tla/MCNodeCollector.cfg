SPECIFICATION FairSpec
CONSTANTS
    Requests = {r1, r2, r3}
    Collectors = {cpu, textfile}
    MaxRequests = 2
    Hanging = {textfile}
    Panicking = {textfile}
INVARIANTS
    TypeOK
    NoSendAfterClose
    OneResultPerCollector
PROPERTIES
    AnsweredUnlessBlocked
    ImplementsService
CHECK_DEADLOCK FALSE
