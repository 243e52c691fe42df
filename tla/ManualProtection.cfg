SPECIFICATION Spec
CONSTANTS
    Enabled = {"main", "backup", "emergency"}
    Protection = 1
    Cooldown = 1
    SwitchLimit = 1
    SwitchWindow = 3
    PropagationDelay = 1
    EvidenceTimeout = 2
    FailureThreshold = 1
    HumanTargets = {"backup"}
    ConsoleGroups = {"gEmergency", "gOther", "gone"}
    DryRun = {FALSE}
    MaxClock = 2
    MaxRows = 2
    MaxVersion = 1
    MaxEvents = 3
PROPERTIES
    ManualProtection
