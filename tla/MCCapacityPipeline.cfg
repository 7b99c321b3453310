\* Two threads.
SPECIFICATION Spec
CONSTANTS
    Trackers = {1, 2}
    NaN = NaN
    Loads <- MCLoads
    Scale <- MCScale
    DecayPercent <- MCDecay
    IdlePeriod <- MCPeriod
    Word <- MCWord
    GarbageWeights <- MCWeights
    GarbageCounts <- MCCounts
    UpdateInterval <- MCInterval
    GarbageCapacities <- MCGarbage
    MaxFrequencies <- MCFrequencies
    Scaled <- MCScaled
    LimiterWord <- MCLimiterWord
    Machines <- MCMachines
    MaxDelay <- MCDelay
    Horizon <- MCHorizon
PROPERTIES LoadSettles AcceptedOverloadReleases GovernsAsPromised
INVARIANTS RejectedOnlyOvertaken
