SPECIFICATION FairSpec
CONSTANTS
    RuleSets = {r1}
    DataRefs <- MCDataRefs
    SourceRefs <- MCSourceRefs
    Specs <- MCOneSpec
    Contents <- MCFewContents
    Absent = Absent
    Compiles <- MCCompiles
    HasUnsupported <- MCHasUnsupported
    NoEntry = NoEntry
    NoRuleSet = NoRuleSet
    MaxLag = 1
    MaxEdits = 2
    MaxDisruptions = 0
PROPERTIES StatusConverges
CHECK_DEADLOCK FALSE
