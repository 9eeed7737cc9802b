---------------------------- MODULE CacheServer -----------------------------
(***************************************************************************)
(* The HTTP server in front of the rule set cache (handleRules and what it *)
(* calls in internal/rulesets/cache/server.go) and the token authenticator *)
(* it asks (auth.go): any number of requests in flight, each one goroutine,*)
(* over a shared cache of authentication results.                          *)
(*                                                                         *)
(* A path is the sequence of its segments after "/rules/", a cache key is  *)
(* one too.  An authentication result is cached under a token and an       *)
(* audience; the audience stands for the cache key it is built from.       *)
(* Expiry times are kept relative to the clock (how long is left), so that *)
(* time is unbounded: 0 is the very instant of expiry, -1 is past it.      *)
(*                                                                         *)
(* External: the TokenReview API (who a token belongs to, which audience   *)
(* it is bound to, when it stops being valid) and the clients.             *)
(***************************************************************************)
EXTENDS Integers, Sequences, FiniteSets

CONSTANTS
    Handlers,          \* requests that can be in flight at the same time
    RuleSets,          \* <<namespace, name>> of the RuleSets ever published
    Paths,             \* paths clients ask for
    Tokens,            \* bearer tokens clients present
    NoToken,           \* no (or an empty) Authorization header
    TokenAudience,     \* token -> the cache key its audience is built from
    TokenNamespace,    \* token -> namespace of its ServiceAccount
    NotServiceAccount, \* the TokenNamespace of any other user's token
    Payloads, NoEntry, MaxRevisions,   \* of RulesStore
    TTL,               \* cacheTTL
    maxAuthCacheSize

ASSUME ServerAssumption ==
    /\ IsFiniteSet(Tokens)
    /\ Paths # {}
    /\ TTL \in Nat \ {0}
    /\ maxAuthCacheSize \in Nat
    /\ NoToken \notin Tokens
    /\ \A rs \in RuleSets : rs = <<rs[1], rs[2]>> /\ rs[1] # NotServiceAccount

VARIABLES
    served, revision,  \* the rule set cache, as RulesStore promises it
    cached,            \* keys of the authenticator's map
    ttl,               \* key -> time left until expiresAt, -1 if not cached
    cacheSize,         \* the authenticator's own count of its map
    revoked,           \* tokens the TokenReview API no longer accepts
    pc, req,           \* per request: where it is, what it asks for
    lifetime,          \* per request: time left of the result to be stored
    resp               \* per request: outcome of the last one handled

storeVars == <<served, revision>>
authVars == <<cached, ttl, cacheSize>>
vars == <<served, revision, cached, ttl, cacheSize, revoked,
          pc, req, lifetime, resp>>

Store == INSTANCE RulesStore WITH Instances <- RuleSets

-----------------------------------------------------------------------------
(* Paths, keys and tokens.                                                 *)

\* The path ends in "/latest": something precedes the last segment.
isLatest(path) == Len(path) > 1 /\ path[Len(path)] = "latest"

\* Mutant of CacheKey: the suffix stays part of the key.
CacheKeyUntrimmed(path) == path

CacheKey(path) ==
    IF isLatest(path) THEN SubSeq(path, 1, Len(path) - 1) ELSE path

CacheKeys == {CacheKey(path) : path \in Paths}

AuthKeys == Tokens \X CacheKeys

AuthKey(h) == <<req[h].token, CacheKey(req[h].path)>>

\* The TokenReview API: the token is live and bound to the audience.
Reviewed(token, key) == token \notin revoked /\ TokenAudience[token] = key

Requests == [path : Paths, token : Tokens \cup {NoToken}]

Outcomes == {"none", "methodNotAllowed", "badRequest", "forbidden",
             "reviewError", "notFound", "served"}

-----------------------------------------------------------------------------
Init ==
    /\ Store!Init
    /\ cached = {}
    /\ ttl = [k \in AuthKeys |-> -1]
    /\ cacheSize = 0
    /\ revoked = {}
    /\ pc = [h \in Handlers |-> "idle"]
    /\ req = [h \in Handlers |-> CHOOSE r \in Requests : TRUE]
    /\ lifetime = [h \in Handlers |-> -1]
    /\ resp = [h \in Handlers |-> "none"]

Goto(h, label) == pc' = [pc EXCEPT ![h] = label] /\ UNCHANGED resp

Answer(h, outcome) ==
    /\ pc' = [pc EXCEPT ![h] = "idle"]
    /\ resp' = [resp EXCEPT ![h] = outcome]

\* A request arrives; method, path and token are checked before any lookup.
Receive(h, method, request) ==
    /\ pc[h] = "idle"
    /\ req' = [req EXCEPT ![h] = request]
    /\ \/ method # "GET" /\ Answer(h, "methodNotAllowed")
       \/ method = "GET" /\ request.path = <<>> /\ Answer(h, "badRequest")
       \/ /\ method = "GET" /\ request.path # <<>>
          /\ request.token = NoToken
          /\ Answer(h, "forbidden")
       \/ /\ method = "GET" /\ request.path # <<>>
          /\ request.token # NoToken
          /\ pc' = [pc EXCEPT ![h] = "lookup"]
          /\ resp' = [resp EXCEPT ![h] = "none"]
    /\ UNCHANGED <<storeVars, authVars, revoked, lifetime>>

\* Mutant of LookUp: the expiry time is not looked at.
LookUpIgnoringExpiry(h) ==
    /\ pc[h] = "lookup"
    /\ Goto(h, IF AuthKey(h) \in cached THEN "authorised" ELSE "review")
    /\ UNCHANGED <<storeVars, authVars, revoked, req, lifetime>>

\* cache.Load and the comparison with expiresAt.
LookUp(h) ==
    /\ pc[h] = "lookup"
    /\ Goto(h, IF AuthKey(h) \notin cached THEN "review"
               ELSE IF ttl[AuthKey(h)] > 0 THEN "authorised" ELSE "expired")
    /\ UNCHANGED <<storeVars, authVars, revoked, req, lifetime>>

\* Mutant of DropExpired: the count goes down although another request has
\* already removed the entry.
DropExpiredBlindly(h) ==
    /\ pc[h] = "expired"
    /\ cached' = cached \ {AuthKey(h)}
    /\ ttl' = [ttl EXCEPT ![AuthKey(h)] = -1]
    /\ cacheSize' = cacheSize - 1
    /\ Goto(h, "review")
    /\ UNCHANGED <<storeVars, revoked, req, lifetime>>

\* LoadAndDelete under cacheMu: whatever is under the key now goes, be it
\* the expired entry or one another request has stored since.
DropExpired(h) ==
    /\ pc[h] = "expired"
    /\ cached' = cached \ {AuthKey(h)}
    /\ ttl' = [ttl EXCEPT ![AuthKey(h)] = -1]
    /\ cacheSize' = IF AuthKey(h) \in cached THEN cacheSize - 1 ELSE cacheSize
    /\ Goto(h, "review")
    /\ UNCHANGED <<storeVars, revoked, req, lifetime>>

\* The API call fails, rejects, or names a user that is no ServiceAccount.
ReviewFails(h) ==
    /\ pc[h] = "review"
    /\ Answer(h, "reviewError")
    /\ UNCHANGED <<storeVars, authVars, revoked, req, lifetime>>

ReviewRejects(h) ==
    /\ pc[h] = "review"
    /\ \/ ~Reviewed(req[h].token, CacheKey(req[h].path))
       \/ TokenNamespace[req[h].token] = NotServiceAccount
    /\ Answer(h, "forbidden")
    /\ UNCHANGED <<storeVars, authVars, revoked, req, lifetime>>

\* The review succeeds and expiresAt is computed.
ReviewAccepts(h) ==
    /\ pc[h] = "review"
    /\ Reviewed(req[h].token, CacheKey(req[h].path))
    /\ TokenNamespace[req[h].token] # NotServiceAccount
    /\ lifetime' = [lifetime EXCEPT ![h] = TTL]
    /\ Goto(h, "store")
    /\ UNCHANGED <<storeVars, authVars, revoked, req>>

\* Under cacheMu: make room if the count is at the limit, then store and
\* count if it is below.
StoreResult(h) ==
    LET evicted == {k \in cached : cacheSize >= maxAuthCacheSize /\ ttl[k] < 0}
        size    == cacheSize - Cardinality(evicted)
        room    == size < maxAuthCacheSize
    IN
    /\ pc[h] = "store"
    /\ cached' = (cached \ evicted) \cup (IF room THEN {AuthKey(h)} ELSE {})
    /\ ttl' = IF room THEN [ttl EXCEPT ![AuthKey(h)] = lifetime[h]] ELSE ttl
    /\ cacheSize' = IF room THEN size + 1 ELSE size
    /\ lifetime' = [lifetime EXCEPT ![h] = -1]
    /\ Goto(h, "authorised")
    /\ UNCHANGED <<storeVars, revoked, req>>

\* Mutant of NamespaceMatches: any ServiceAccount will do.
NamespaceIgnored(h) == Len(CacheKey(req[h].path)) > 1

NamespaceMatches(h) ==
    LET key == CacheKey(req[h].path) IN
    Len(key) > 1 /\ TokenNamespace[req[h].token] = key[1]

\* The rest of authenticateRequest, then the cache lookup and the response.
Respond(h) ==
    LET key == CacheKey(req[h].path) IN
    /\ pc[h] = "authorised"
    /\ Answer(h, IF ~NamespaceMatches(h) THEN "forbidden"
                 ELSE IF key \in RuleSets /\ served[key] # NoEntry
                      THEN "served" ELSE "notFound")
    /\ UNCHANGED <<storeVars, authVars, revoked, req, lifetime>>

-----------------------------------------------------------------------------
(* The environment: the reconciler publishes, tokens expire or lose their  *)
(* ServiceAccount, time passes.                                            *)

Publish ==
    /\ Store!Next
    /\ UNCHANGED <<authVars, revoked, pc, req, lifetime, resp>>

Revoke(t) ==
    /\ revoked' = revoked \cup {t}
    /\ UNCHANGED <<storeVars, authVars, pc, req, lifetime, resp>>

\* Mutant of Elapse: an entry goes on ageing after it has expired.
ElapseUnbounded(left) == left - 1

Elapse(left) == IF left > -1 THEN left - 1 ELSE -1

Tick ==
    /\ ttl' = [k \in AuthKeys |-> Elapse(ttl[k])]
    /\ lifetime' = [h \in Handlers |-> Elapse(lifetime[h])]
    /\ UNCHANGED <<storeVars, cached, cacheSize, revoked, pc, req, resp>>

-----------------------------------------------------------------------------
Handle(h) ==
    \/ LookUp(h) \/ DropExpired(h)
    \/ ReviewFails(h) \/ ReviewRejects(h) \/ ReviewAccepts(h)
    \/ StoreResult(h) \/ Respond(h)

Next ==
    \/ \E h \in Handlers, method \in {"GET", "POST"}, request \in Requests :
          Receive(h, method, request)
    \/ \E h \in Handlers : Handle(h)
    \/ Publish
    \/ \E t \in Tokens : Revoke(t)
    \/ Tick

Spec == Init /\ [][Next]_vars

\* A handler goroutine that has something to do gets to do it (the review
\* call returns at the latest when the request's context ends), and time
\* passes.  Clients, publications and revocations owe nothing.
FairSpec == Spec /\ (\A h \in Handlers : WF_vars(Handle(h))) /\ WF_vars(Tick)

-----------------------------------------------------------------------------
(* Properties.                                                             *)

TypeOK ==
    /\ cached \subseteq AuthKeys
    /\ ttl \in [AuthKeys -> -1..TTL]
    /\ cacheSize \in Int
    /\ revoked \subseteq Tokens
    /\ pc \in [Handlers -> {"idle", "lookup", "expired", "review", "store",
                            "authorised"}]
    /\ req \in [Handlers -> Requests]
    /\ lifetime \in [Handlers -> -1..TTL]
    /\ resp \in [Handlers -> Outcomes]

\* The map never outgrows its limit, however requests race between their
\* lookups, deletions, evictions and stores: the count bounds the map from
\* above and the limit bounds the count (auth.go, Authenticate).
AuthCacheBounded ==
    Cardinality(cached) <= cacheSize /\ cacheSize <= maxAuthCacheSize

\* Whoever is served a RuleSet holds a token the TokenReview API bound to
\* that very RuleSet, of a ServiceAccount in its namespace: no cached result
\* of another audience, and no token of another namespace, ever opens it.
ServedIsScoped ==
    \A h \in Handlers : resp[h] \in {"served", "notFound"} =>
        LET key == CacheKey(req[h].path) IN
        /\ req[h].token \in Tokens
        /\ TokenAudience[req[h].token] = key
        /\ TokenNamespace[req[h].token] = key[1]

\* The two endpoints of a RuleSet, GET /rules/{namespace/name} and .../latest
\* (docs/content/explanation/architecture.md).  The first one of a RuleSet that
\* is itself named latest is taken for the second one of something else.
Endpoints(rs) == {Append(rs, "latest")} \cup (IF rs[2] = "latest" THEN {} ELSE {rs})

\* A client that asks for a RuleSet or for its latest revision, with a live
\* token bound to that RuleSet in the right namespace, is not turned away,
\* whatever the state of the authentication cache; only a failing TokenReview
\* call may refuse it.
EntitledNotForbidden ==
    \A h \in Handlers, rs \in RuleSets :
        ~ /\ resp[h] = "forbidden"
          /\ req[h].path \in Endpoints(rs)
          /\ req[h].token \in Tokens \ revoked
          /\ TokenAudience[req[h].token] = rs
          /\ TokenNamespace[req[h].token] = rs[1]

\* A revoked token stops opening anything once the cached results of its
\* last reviews have run out, including the ones stored late by requests
\* that were in flight at the revocation.
RevocationTakesEffect ==
    \A t \in Tokens :
        t \in revoked ~>
            [](\A h \in Handlers : req[h].token = t => pc[h] # "authorised")
=============================================================================
