\* One frame and one reference of each kind are enough.
SPECIFICATION HostSpec
CONSTANTS
    Frames = {f1}
    MaxRefs = 1
    MaxQueue = 1
INVARIANT NeverReentered
CHECK_DEADLOCK FALSE
