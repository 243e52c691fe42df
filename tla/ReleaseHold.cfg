SPECIFICATION Spec
CONSTANTS
    Commands <- Three
    Request <- ReleaseRequests
    Accounts = {1}
    Values = 100
    MaxSlots = 1
    MaxClock = 0
    MaxDisturbances = 0
INVARIANTS
    ReleaseRevokes
\* Every call may have been made and answered.
CHECK_DEADLOCK FALSE
