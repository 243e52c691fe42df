SPECIFICATION Spec
CONSTANTS
    Settings <- MCSettings
    AccountPolicy <- MCAccountPolicy
    GoodCheck <- MCGoodCheck
    Checks <- MCChecks
    GoodWindow <- MCGoodWindow
    Windows <- MCWindows
    Wiring <- MCWiring
    Wirings <- MCWirings
    Rates <- MCRates
    Recent = 2
    Kept = 3
    Baselines = {10}
    Concurrency = 10
    OverrideLoad = 20
    QueueBound = 2
    EventBound = 2
    Peers = {"peer"}
PROPERTIES
    
    BackInService
    
CHECK_DEADLOCK FALSE
