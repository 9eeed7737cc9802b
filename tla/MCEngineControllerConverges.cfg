SPECIFICATION FairSpec
CONSTANTS
    Specs <- MCOneSpec
    NoPlugin = NoPlugin
    NoToken = NoToken
    Never = Never
    Lifetime = 2
    RenewAt = 1
    MaxLag = 1
    MaxEdits = 3
    MaxDrifts = 1
    MaxFaults = 0
    MaxRestarts = 0
    MaxIncarnations = 2
PROPERTIES NoOrphans Provisioned
CHECK_DEADLOCK FALSE
