SPECIFICATION FairSpec
CONSTANTS
    Replicas = {r1, r2}
    Plugins = {g1}
    NoEntry = NoEntry
    NoConn = NoConn
    Free = Free
    Stale = Stale
    MaxEdits = 2
    MaxExits = 2
    MaxFaults = 1
    MaxBreaks = 1
INVARIANTS TypeOK OnlyAcceptedRuns
PROPERTIES RulesNeverGoBack InForceConverges BadUpdateTolerated
CHECK_DEADLOCK FALSE
