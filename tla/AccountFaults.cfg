SPECIFICATION Spec
CONSTANTS
    Commands <- Two
    Request <- FaultRequests
    Accounts = {1}
    Values = 100
    MaxSlots = 1
    MaxClock = 1
    MaxDisturbances = 2
INVARIANTS
    SerialPerAccount
    TypeOK
    FreezeRespected
    WriteBudget
    OverrideFollowsJournal
PROPERTIES
    FinalIsFinal
    UsesGate
\* Every call may have been made and answered.
CHECK_DEADLOCK FALSE
