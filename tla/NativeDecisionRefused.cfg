SPECIFICATION Spec
CONSTANTS
    Workers = {w1}
    Ops = {"redactPost"}
    FlagNames = {"marked"}
    MaxCommands = 2
    MaxChanges = 0
    MaxFaults = 1
    MaxExpiries = 0
INVARIANT FailedMeansNoEffect
CHECK_DEADLOCK FALSE
