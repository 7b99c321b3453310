\* Every part; the device service is disabled in the tracker and enabled elsewhere.
SPECIFICATION MCSpec
CONSTANTS
    Trackers = {t1}
    NaN = NaN
    Loads <- MCLoads
    Scale <- MCScale
    DecayPercent <- MCDecay
    IdlePeriod <- MCShort
    Word <- MCShortWord
    TickModulus <- MCTicks
    GarbageWeights <- MCWeights
    GarbageCounts <- MCCounts
    MaxTime <- MCMaxTime
    reporting_interval <- MCInterval
    deviceServiceFlag = FALSE
    Navigators = {navigator}
    Frames = {frame}
    Services = {cpu, gpu}
    kCPUComputeCapacity = cpu
    DeviceServiceEnabled = TRUE
    MaxChanges <- MCMaxChanges
INVARIANTS SilenceBounded ReactsToLoad LastHintIsBand
INVARIANTS RunTimeExact AdvanceChecksHold
INVARIANTS OnlyReplyIsStale LastNoticeIsCurrent
PROPERTIES ReportsEveryInterval ReportIsWindowAverage ConnectionIsAnswered
