\* A process that dies while its shutdown is delayed.
SPECIFICATION HostSpec
CONSTANTS
    Frames = {f1}
    MaxRefs = 1
    MaxQueue = 1
CHECK_DEADLOCK FALSE
INVARIANTS EveryDelayEnds
