SPECIFICATION FairSpec
CONSTANTS
    Handlers = {h1, h2}
    RuleSets <- MCRuleSets
    Paths <- MCPaths
    Tokens <- MCTokens
    NoToken = NoToken
    good = good
    foreign = foreign
    TokenAudience <- MCTokenAudience
    TokenNamespace <- MCTokenNamespace
    NotServiceAccount = NotServiceAccount
    Payloads = {p}
    NoEntry = NoEntry
    MaxRevisions = 1
    TTL = 1
    maxAuthCacheSize = 1
INVARIANTS TypeOK AuthCacheBounded ServedIsScoped EntitledNotForbidden
PROPERTIES RevocationTakesEffect
