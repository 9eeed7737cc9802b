SPECIFICATION FairSpec
CONSTANTS
    Instances = {a, b}
    Payloads <- MCPayloads
    PayloadSize <- MCPayloadSize
    MaxPayloadSize = 3
    NoEntry = NoEntry
    MaxAge = 1
    MaxSize = 4
    MaxRevisions = 4
    MaxTime = 3
INVARIANTS TypeOK LatestRetained AccountingExact RevisionsConserved
PROPERTIES ShrinkExact ImplementsStore StaleCollected OversizeResolved
CHECK_DEADLOCK FALSE
