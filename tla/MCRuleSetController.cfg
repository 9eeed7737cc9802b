SPECIFICATION FairSpec
CONSTANTS
    RuleSets = {r1}
    DataRefs <- MCDataRefs
    SourceRefs <- MCSourceRefs
    Specs <- MCSpecs
    Contents <- MCContents
    Absent = Absent
    Compiles <- MCCompiles
    HasUnsupported <- MCHasUnsupported
    NoEntry = NoEntry
    NoRuleSet = NoRuleSet
    MaxLag = 1
    MaxEdits = 2
    MaxDisruptions = 1
INVARIANTS TypeOK NothingTornAtRest ReadyIsCached
PROPERTIES ServedConverges LastKnownGoodKept StatusConvergesFresh
CHECK_DEADLOCK FALSE
