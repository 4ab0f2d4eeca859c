SPECIFICATION DeliverySpec
CONSTANTS
    Partitions = {board, thread}
    Streams <- SSEStream
    Origins = {"handler"}
    Buffer = 1
    BacklogLimit = 2
    GapLimit = 4
    MaxSeq = 4
    MaxFaults = 0
    Nodes = {w1, w2}
    NoNode = NoNode
    Keys = {board, thread}
    BatchSize = 2
    PollRecordLimit = 2
    MaxTakeovers = 1
    MaxMishaps = 1
    MaxExtent = 0
SYMMETRY Symmetry
INVARIANT NoHoles
CHECK_DEADLOCK FALSE
