SPECIFICATION Spec
CONSTANTS
    bad = bad
    ok = ok
    Ids = {bad, ok}
    NoId = NoId
    Unsupported = {bad}
    Fragments <- MCFragments
    MaxFragments = 4
INVARIANTS TypeOK EveryDropReported FilterExact OutputSupported
CHECK_DEADLOCK FALSE
