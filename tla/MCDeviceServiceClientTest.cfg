\* What the browser test expects after a change of the service.
SPECIFICATION ClientSpec
CONSTANTS
    Navigators = {navigator}
    Frames = {frame}
    Services = {cpu, gpu}
    kCPUComputeCapacity = cpu
    DeviceServiceEnabled = TRUE
    MaxChanges <- MCMaxChanges
CHECK_DEADLOCK FALSE
INVARIANTS QuietKnowsCurrent
