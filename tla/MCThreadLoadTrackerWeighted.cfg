\* The device service is enabled: the load that is reported is the smoothed one.
SPECIFICATION TrackerSpec
CONSTANTS
    MaxTime <- MCMaxTime
    reporting_interval <- MCInterval
    deviceServiceFlag = TRUE
    Scale <- MCScale
    DecayPercent <- MCDecay
    NaN = NaN
    GarbageWeights <- MCZero
PROPERTIES ReportIsWindowAverage
