\* Every setting of MCSettings.
SPECIFICATION MCSpec
CONSTANTS
    MaxFrequencies <- MCFrequencies
    Scaled <- MCScaled
    DownCounts <- MCDownCounts
    UpCounts <- MCUpCounts
    Word <- MCWord
    StoredLimits <- MCStored
    Processes = {p1, p2}
    GearLimits <- MCGearLimits
SYMMETRY MCSymmetry
INVARIANTS AppliedIsIntended NeverStarved SharedSchemeSettles
PROPERTIES StepsKeepLimits
