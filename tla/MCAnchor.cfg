SPECIFICATION Spec
CONSTANTS
    Drivers = {"solusvm2"}
    Size = 3
    Blocks <- TwoBlocks
    Cap = 2
    NodeCap = 1
    MaxFaults = 0
    MaxEvents = 0
INVARIANT NothingCutOff
CHECK_DEADLOCK FALSE
