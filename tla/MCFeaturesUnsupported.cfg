\* One setting at a time, with the base::Features of MCBrowserProcess.cfg.
SPECIFICATION FeatureSpec
CONSTANTS
    BaseDefaults = {"HardwareProfiling", "WebGPUService"}
    MaxSettings = 1
INVARIANT DependentsNeedTheirBase
\* The functions are called once.
CHECK_DEADLOCK FALSE
