SPECIFICATION Spec
CONSTANTS
    Script <- Scripts
    MaxItems = 2
    Outside <- StepsOutside
    Inside <- StepsInside
    Flags <- ScriptFlags
    Judged <- ScriptJudged
    Incremental <- SendWhileReading
    LateNoData <- NoDataAfterSamples
    MayRepeat <- AmbiguousLabels
    MayPanic <- Unguarded
    Unbacked <- LookedUpBySanitizedName
    Helps = {"", "a", "b"}
    PromFiles = 4
    Leap = 8
    LastTime = 13
    MaxReplies = 2
    Units = 3
    Updates = {u1, u2, u3}
    Locked = {"netdev", "ethtool"}
    Unlocked = {"netclass", "meminfo_numa", "zoneinfo"}
    DescKeys = {k1, k2}
\* Each behaviour is one Update, which ends.
CHECK_DEADLOCK FALSE
INVARIANTS
    TypeOK
    OnlyWhatWasRead
    SentOnce
    FailureSentNothing
    NoPanic
    HelpsReconciled
    SmearTolerated
    SharedWhileWorking
    MutexSuffices
