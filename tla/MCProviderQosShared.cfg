\* --device-service=qos, two renderer processes.
SPECIFICATION Spec
CONSTANTS
    Receivers = {r1}
    Clients = {}
    Processes <- MCTwoProcesses
    Services = {"qos"}
    UpdateInterval <- MCInterval
    TickModulus <- MCWide
    Times <- MCTimes
    GarbageCapacities <- MCGarbage
INVARIANTS EcoFlagCoversThrottled
