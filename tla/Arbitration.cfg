SPECIFICATION Spec
CONSTANTS
    Intents <- MCIntents
    MaxPool = 3
    MaxClock = 3
INVARIANTS
    OneWinner
    HoldStands
PROPERTIES
    TimeUnseatsOnlyExpired
    NewcomerChangesOnlyItsOwn
