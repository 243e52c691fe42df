SPECIFICATION FairSpec
CONSTANTS
    m1 = m1
    m2 = m2
    f1 = f1
    f2 = f2
    Mutators <- TwoMutators
    Freezers <- TwoFreezers
INVARIANTS
    TypeOK
    Exclusion
    NoLostWakeup
PROPERTIES
    FreezeHasPriority
    PublicationNotStarved
    ImplementsGate
