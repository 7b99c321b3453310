\* Every value of --device-service, two renderer processes.
SPECIFICATION Spec
CONSTANTS
    Receivers = {r1, r2}
    Clients = {c1}
    Processes <- MCTwoProcesses
    Services <- MCServices
    UpdateInterval <- MCInterval
    TickModulus <- MCWide
    Times <- MCTimes
    GarbageCapacities <- MCGarbage
SYMMETRY MCReceivers
INVARIANTS ListeningMatchesReceivers PeakOfWindow RejectedOnlyPast IdleAloneNeverThrottles
PROPERTIES OverloadNeverLost
