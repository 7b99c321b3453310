\* The tick count wraps within the run.
SPECIFICATION Spec
CONSTANTS
    Receivers = {r1}
    Clients = {}
    Processes <- MCOneProcess
    Services = {"frequency"}
    UpdateInterval <- MCInterval
    TickModulus <- MCNarrow
    Times <- MCTimes
    GarbageCapacities <- MCGarbage
INVARIANTS RejectedOnlyPast
