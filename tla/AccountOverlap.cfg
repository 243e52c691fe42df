SPECIFICATION Spec
CONSTANTS
    Commands <- Three
    Request <- OverlapRequests
    Accounts = {1}
    Values = 100
    MaxSlots = 1
    MaxClock = 1
    MaxDisturbances = 1
INVARIANTS
    NoLeftoverCandidate
    WriteObeysOverrides
    OverlapOrder
\* Every call may have been made and answered.
CHECK_DEADLOCK FALSE
