SPECIFICATION FairSpec
CONSTANTS
    Workers = {w1}
    Ops = {"editPost", "setPostFlag", "redactPost", "restorePost", "purgePost"}
    FlagNames = {"marked"}
    MaxCommands = 2
    MaxChanges = 1
    MaxFaults = 2
    MaxExpiries = 5
INVARIANT EventsInCommandOrder
 
PROPERTY EventuallyFinalized
CHECK_DEADLOCK FALSE
