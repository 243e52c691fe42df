SPECIFICATION Spec
CONSTANTS
    GoalMaxAttempts = 2
    CommandMaxAttempts = 2
    MaxModelAttempts = 2
    Reasons = {"r1"}
    Classes = {"readable", "unreadable", "group"}
    MaxEvents = 2
    MaxSteps = 2
    MaxCommands = 2
 
INVARIANTS   GrantSingleUse ConfirmedFirst
CHECK_DEADLOCK FALSE
