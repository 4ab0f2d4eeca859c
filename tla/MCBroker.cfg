SPECIFICATION Spec
CONSTANTS
    Owners = {w1, w2}
    NoOwner = NoOwner
    TTL = 3
    Skew = 1
    MaxTime = 4
    Producers = {w1, w2}
    Cids = {c1}
    Bodies = {b1, b2}
    None = None
    Retries = 2
    MaxSeq = 2
    Committers = {w1, w2}
    Clients = {b1, b2}
    MaxOffset = 2
    MaxCommits = 2
    Callers = {w1, w2}
    Absent = Absent
    BucketRetries = 2
    MaxFaults = 1
    Posts = {b1, b2}
    Polls = {poll1}
    Options = {yes, no}
    Users = {u1, u2}
    Emojis = {heart}
    Writer = u2
    ShardOf <- MCShardOf
    MaxJobs = 3
    Guests = {guest1}
    Sessions <- MCSessions
    Rooms = {lobby}
    CoalesceWindow = 1
    OnlineWindow = 2
    BucketTTL = 3
    HistoryLimit = 2
    ClockSkew = 1
    MaxNow = 3
    MaxCalls = 3
    Handlers = {w1, w2}
    People = {"ann", "bob"}
    Alias = "zoe"
    Deleted = "deleted"
    Passwords = {"old", "new"}
    CodeTTL = 1
    MaxSignatures = 2
    MaxFiles = 1
    MaxSecond = 3
    MaxRequests = 4
SYMMETRY Interchangeable
INVARIANTS
    ExclusiveWhileFresh
    OffsetsDense
    AckedInLog
    CommitsIncrease
    CountsMatch
    PresenceAndChatTrue
    SpentOnce
    
    
PROPERTY RefreshSucceeds
