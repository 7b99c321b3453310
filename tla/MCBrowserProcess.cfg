\* Two frames, references of a kind and widgets, four hosts for two instances,
\* two browser processes and two profiles, two renderers for the setting, and
\* up to three settings at a time for the features.
SPECIFICATION MCSpec
CONSTANTS
    Frames = {f1, f2}
    MaxRefs = 2
    MaxQueue = 3
    NumClients = 2
    MaxDepth = 1
    MaxCount = 1
    NumHosts = 4
    Instances = {i1, i2}
    Sites = {"a", "siteless"}
    Homes = {"h1", "h2"}
    DefaultHomes = {"h1", "h2"}
    Home <- MCHome
    Dedicated <- MCDedicated
    Siteless <- MCSiteless
    MaxDelays = 1
    MaxLimit = 2
    Processes = {p1, p2}
    Profiles = {"default", "other"}
    Renderers = {p1, p2}
\* content_features.cc and blink's features.cc; WebGPUService is on.
    BaseDefaults = {"HardwareProfiling", "WebGPUService"}
    MaxSettings = 3
SYMMETRY Symmetry
INVARIANTS TypesOK ChecksHold PagesRunInitialised ReadyWhenBoth NoLeak
INVARIANTS PriorityIsWanted ProcessAgrees LocksFit SpareWithinLimit TrackedExist
INVARIANTS EveryProfileInitialisedOnce ProfilesOnlyOfOwner IpfBalanced OneSettingPerSession SettingsPrevail
PROPERTIES DestroyedIsLast NothingQueuedIsLost
\* A host is deleted and hosts are used up.
CHECK_DEADLOCK FALSE
