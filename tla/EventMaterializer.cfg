SPECIFICATION FairSpec
CONSTANTS
    Workers = {w1, w2}
    PartitionCount = 2
    BatchSize = 2
    PartitionLimit = 2
    MaxEvents = 3
    MaxGaps = 1
    MaxFaults = 1
INVARIANTS
    NothingPastGap
    ExactPrefix
 
