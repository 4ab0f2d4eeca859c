SPECIFICATION FairSpec
CONSTANTS
    Nodes = {n1, n2}
    Loops = {l1, l2}
    Posts = {p1}
    Snapshot = snap
    MaxAttempts = 2
    Thresholds = {1}
    MaxChanges = 3
    MaxFaults = 2
    None = None
INVARIANTS
    OneRunner
    
 
