SPECIFICATION FairSpec
CONSTANTS
    Commands <- Three
    Request <- LiveRequests
    Accounts = {1, 2}
    Values = 100
    MaxSlots = 1
    MaxClock = 0
    MaxDisturbances = 0
PROPERTIES
    EveryCallReturns
\* Every call may have been made and answered.
CHECK_DEADLOCK FALSE
