SPECIFICATION DeliverySpec
CONSTANTS
    Partitions = {board, thread}
    Streams <- UsualStreams
    Origins = {"listener"}
    Buffer = 2
    BacklogLimit = 2
    GapLimit = 4
    MaxSeq = 4
    MaxFaults = 2
    Nodes = {w1, w2}
    NoNode = NoNode
    Keys = {board, thread}
    BatchSize = 2
    PollRecordLimit = 2
    MaxTakeovers = 1
    MaxMishaps = 1
    MaxExtent = 4
SYMMETRY Symmetry
INVARIANTS
    InPartitionOrder
    
    DrainedInOrder
    EventsOnce
CHECK_DEADLOCK FALSE
