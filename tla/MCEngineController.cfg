SPECIFICATION Spec
CONSTANTS
    Specs <- MCTwoSpecs
    NoPlugin = NoPlugin
    NoToken = NoToken
    Never = Never
    Lifetime = 3
    RenewAt = 2
    MaxLag = 1
    MaxEdits = 2
    MaxDrifts = 0
    MaxFaults = 1
    MaxRestarts = 1
    MaxIncarnations = 1
INVARIANTS TypeOK FinalizerHeld TokenScoped ProvisionedAtRest
PROPERTIES PolicyBeforePlugin
CHECK_DEADLOCK FALSE
