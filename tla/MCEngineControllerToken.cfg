SPECIFICATION Spec
CONSTANTS
    Specs <- MCOneSpec
    NoPlugin = NoPlugin
    NoToken = NoToken
    Never = Never
    Lifetime = 3
    RenewAt = 2
    MaxLag = 1
    MaxEdits = 3
    MaxDrifts = 0
    MaxFaults = 0
    MaxRestarts = 0
    MaxIncarnations = 2
INVARIANTS TokenValid
CHECK_DEADLOCK FALSE
