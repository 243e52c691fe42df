SPECIFICATION Spec
CONSTANTS
    Commands <- Two
    Request <- HoldRequests
    Accounts = {1}
    Values = 100
    MaxSlots = 1
    MaxClock = 0
    MaxDisturbances = 1
INVARIANTS
    RecoveryObeysHolds
\* Every call may have been made and answered.
CHECK_DEADLOCK FALSE
