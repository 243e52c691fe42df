SPECIFICATION FairSpec
CONSTANTS
    Accounts = {a1, a2}
    Requesters = {telemetry}
    Worker = worker
    MaxRequests = 1
    MaxClock = 2
    MaxChanges = 2
INVARIANTS
    NoRequestLost
    NoLostWake
    
PROPERTIES
    EveryRequestServed
    
    ExpiredIsReconciled
