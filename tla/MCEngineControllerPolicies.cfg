SPECIFICATION FairSpec
CONSTANTS
    Specs <- MCTwoTargets
    NoPlugin = NoPlugin
    NoToken = NoToken
    Never = Never
    Lifetime = 3
    RenewAt = 2
    MaxLag = 1
    MaxEdits = 2
    MaxDrifts = 0
    MaxFaults = 0
    MaxRestarts = 0
    MaxIncarnations = 1
PROPERTIES PoliciesFollowTarget
CHECK_DEADLOCK FALSE
