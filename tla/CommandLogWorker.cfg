SPECIFICATION FairSpec
CONSTANTS
    Workers = {w1, w2}
    Cids = {c1}
    Bodies = {b1, b2}
    NoOwner = NoOwner
    NoBody = NoBody
    BatchSize = 2
    CommitAttempts = 2
    MaxRecords = 2
    MaxFaults = 2
INVARIANTS
    ExecutesInOrder
    EffectOnce
    
PROPERTIES
    ImplementsOrderedConsumer
