SPECIFICATION Spec
CONSTANTS
    bad = bad
    ok = ok
    Ids = {bad, ok}
    NoId = NoId
    Unsupported = {bad}
    Fragments <- MCCoreRuleSet
    MaxFragments = 3
INVARIANTS FilterExactAnyLayout
CHECK_DEADLOCK FALSE
