SPECIFICATION Spec
CONSTANTS
    Subs = {s1, s2}
    Scopes = {a, b}
    Events = {1, 2}
    Self = Self
    DedupeLimit = 1
    MaxChanges = 1
SYMMETRY Interchangeable
INVARIANTS
    UpstreamExact
    SentOnce
    
CHECK_DEADLOCK FALSE
