------------------------- MODULE CacheServerProofs --------------------------
(***************************************************************************)
(* Proofs about CacheServer: the authentication cache stays within its     *)
(* limit and access stays scoped, for any number of concurrent requests,   *)
(* any tokens, any limit and any lifetime of the cached results.           *)
(***************************************************************************)
EXTENDS CacheServer, FiniteSetTheorems, SequenceTheorems, TLAPS

\* Results are cached only for the audience their token is bound to.
CachedIsScoped ==
  \A k \in cached : TokenAudience[k[1]] = k[2]

\* A request past authentication holds a token bound to the key it asks for.
InFlightIsScoped ==
  \A h \in Handlers :
    /\ pc[h] # "idle" => req[h].token \in Tokens
    /\ pc[h] \in {"store", "authorised"} =>
         TokenAudience[req[h].token] = CacheKey(req[h].path)

ScopeInv == CachedIsScoped /\ InFlightIsScoped /\ ServedIsScoped

SizeInv == IsFiniteSet(cached) /\ AuthCacheBounded

\* The key of a request that passed the header checks is a key of the map.
LEMMA AuthKeyType ==
  ASSUME TypeOK, InFlightIsScoped, NEW h \in Handlers, pc[h] # "idle"
  PROVE  AuthKey(h) \in AuthKeys
BY DEF TypeOK, InFlightIsScoped, AuthKey, AuthKeys, CacheKeys, Requests

\* Time only runs down to "past expiry".
LEMMA ElapseType ==
  ASSUME NEW x \in -1..TTL
  PROVE  Elapse(x) \in -1..TTL
BY ServerAssumption DEF Elapse

-----------------------------------------------------------------------------
(* Type correctness and scope.                                             *)

\* The server starts with an empty map and no request in flight.
LEMMA InitInv == Init => TypeOK /\ ScopeInv /\ SizeInv
<1> SUFFICES ASSUME Init PROVE TypeOK /\ ScopeInv /\ SizeInv
  OBVIOUS
<1>1. (CHOOSE r \in Requests : TRUE) \in Requests
  <2>1. \E r \in Requests : TRUE
    <3>1. PICK path \in Paths : TRUE
      BY ServerAssumption
    <3>2. [path |-> path, token |-> NoToken] \in Requests
      BY DEF Requests
    <3> QED
      BY <3>2
  <2> QED
    BY <2>1
<1>2. TypeOK
  BY <1>1, ServerAssumption DEF Init, TypeOK, Outcomes
<1>3. ScopeInv
  BY DEF Init, ScopeInv, CachedIsScoped, InFlightIsScoped, ServedIsScoped
<1>4. SizeInv
  BY FS_EmptySet, ServerAssumption DEF Init, SizeInv, AuthCacheBounded
<1> QED
  BY <1>2, <1>3, <1>4

\* No step leaves the types.
LEMMA NextType ==
  ASSUME TypeOK, InFlightIsScoped, IsFiniteSet(cached), [Next]_vars
  PROVE  TypeOK'
<1> USE DEF TypeOK, authVars, storeVars
<1>1. ASSUME NEW h \in Handlers, NEW method, NEW request \in Requests,
             Receive(h, method, request)
      PROVE  TypeOK'
  <2>1. /\ req' = [req EXCEPT ![h] = request]
        /\ UNCHANGED <<cached, ttl, cacheSize, revoked, lifetime>>
    BY <1>1 DEF Receive
  <2>2. \E label \in {"idle", "lookup"}, o \in Outcomes :
          pc' = [pc EXCEPT ![h] = label] /\ resp' = [resp EXCEPT ![h] = o]
    BY <1>1 DEF Receive, Answer, Outcomes
  <2> QED
    BY <2>1, <2>2
<1>2. ASSUME NEW h \in Handlers, LookUp(h) PROVE TypeOK'
  BY <1>2 DEF LookUp, Goto
<1>3. ASSUME NEW h \in Handlers, DropExpired(h) PROVE TypeOK'
  <2>1. -1 \in -1..TTL
    BY ServerAssumption
  <2>2. ttl' = [ttl EXCEPT ![AuthKey(h)] = -1]
    BY <1>3 DEF DropExpired
  <2>3. ttl' \in [AuthKeys -> -1..TTL]
    BY <2>1, <2>2
  <2>4. cacheSize' \in Int
    BY <1>3 DEF DropExpired
  <2> QED
    BY <1>3, <2>3, <2>4 DEF DropExpired, Goto
<1>4. ASSUME NEW h \in Handlers, ReviewFails(h) PROVE TypeOK'
  BY <1>4 DEF ReviewFails, Answer, Outcomes
<1>5. ASSUME NEW h \in Handlers, ReviewRejects(h) PROVE TypeOK'
  BY <1>5 DEF ReviewRejects, Answer, Outcomes
<1>6. ASSUME NEW h \in Handlers, ReviewAccepts(h) PROVE TypeOK'
  BY <1>6, ServerAssumption DEF ReviewAccepts, Goto
<1>7. ASSUME NEW h \in Handlers, StoreResult(h) PROVE TypeOK'
  <2> DEFINE evicted == {k \in cached : cacheSize >= maxAuthCacheSize /\ ttl[k] < 0}
  <2>1. Cardinality(evicted) \in Nat
    BY FS_Subset, FS_CardinalityType
  <2>2. AuthKey(h) \in AuthKeys
    BY <1>7, AuthKeyType DEF StoreResult
  <2>3. cached' \subseteq AuthKeys
    BY <1>7, <2>2 DEF StoreResult
  <2>4. cacheSize' \in Int
    BY <1>7, <2>1 DEF StoreResult
  <2>5. lifetime' \in [Handlers -> -1..TTL]
    BY <1>7, ServerAssumption DEF StoreResult
  <2>6. \/ ttl' = [ttl EXCEPT ![AuthKey(h)] = lifetime[h]]
        \/ ttl' = ttl
    BY <1>7 DEF StoreResult
  <2>7. ttl' \in [AuthKeys -> -1..TTL]
    BY <2>6
  <2> QED
    BY <1>7, <2>3, <2>4, <2>5, <2>7 DEF StoreResult, Goto
<1>8. ASSUME NEW h \in Handlers, Respond(h) PROVE TypeOK'
  <2>1. \E o \in Outcomes : Answer(h, o)
    BY <1>8 DEF Respond, Outcomes
  <2> QED
    BY <1>8, <2>1 DEF Respond, Answer
<1>9. CASE Publish
  BY <1>9 DEF Publish
<1>10. ASSUME NEW t \in Tokens, Revoke(t) PROVE TypeOK'
  BY <1>10 DEF Revoke
<1>11. CASE Tick
  BY <1>11, ElapseType DEF Tick
<1>12. CASE UNCHANGED vars
  BY <1>12 DEF vars
<1> QED
  BY <1>1, <1>2, <1>3, <1>4, <1>5, <1>6, <1>7, <1>8, <1>9, <1>10, <1>11, <1>12
     DEF Next, Handle

\* No step lets a result, or a request, of one audience through to another.
LEMMA NextScope ==
  ASSUME TypeOK, ScopeInv, [Next]_vars
  PROVE  ScopeInv'
<1> USE DEF TypeOK, ScopeInv, authVars, storeVars
<1>1. ASSUME NEW h \in Handlers, NEW method, NEW request \in Requests,
             Receive(h, method, request)
      PROVE  ScopeInv'
  <2>1. /\ cached' = cached
        /\ req' = [req EXCEPT ![h] = request]
    BY <1>1 DEF Receive
  <2>2. \/ /\ pc' = [pc EXCEPT ![h] = "idle"]
           /\ \E o \in Outcomes \ {"served", "notFound"} : resp' = [resp EXCEPT ![h] = o]
        \/ /\ request.token # NoToken
           /\ pc' = [pc EXCEPT ![h] = "lookup"]
           /\ resp' = [resp EXCEPT ![h] = "none"]
    BY <1>1 DEF Receive, Answer, Outcomes
  <2>3. request.token # NoToken => request.token \in Tokens
    BY DEF Requests
  <2>4. CachedIsScoped'
    BY <2>1 DEF CachedIsScoped
  <2>5. InFlightIsScoped'
    BY <2>1, <2>2, <2>3 DEF InFlightIsScoped
  <2>6. ServedIsScoped'
    BY <2>1, <2>2 DEF ServedIsScoped
  <2> QED
    BY <2>4, <2>5, <2>6
<1>2. ASSUME NEW h \in Handlers, LookUp(h) PROVE ScopeInv'
  <2>1. /\ UNCHANGED <<cached, req, resp>>
        /\ \/ pc' = [pc EXCEPT ![h] = "authorised"] /\ AuthKey(h) \in cached
           \/ pc' = [pc EXCEPT ![h] = "review"]
           \/ pc' = [pc EXCEPT ![h] = "expired"]
    BY <1>2 DEF LookUp, Goto
  <2>2. AuthKey(h) \in cached => TokenAudience[req[h].token] = CacheKey(req[h].path)
    BY DEF CachedIsScoped, AuthKey
  <2>3. pc[h] = "lookup"
    BY <1>2 DEF LookUp
  <2> QED
    BY <2>1, <2>2, <2>3 DEF CachedIsScoped, InFlightIsScoped, ServedIsScoped
<1>3. ASSUME NEW h \in Handlers, DropExpired(h) PROVE ScopeInv'
  BY <1>3 DEF DropExpired, Goto, CachedIsScoped, InFlightIsScoped, ServedIsScoped
<1>4. ASSUME NEW h \in Handlers, ReviewFails(h) \/ ReviewRejects(h) PROVE ScopeInv'
  BY <1>4 DEF ReviewFails, ReviewRejects, Answer, CachedIsScoped,
     InFlightIsScoped, ServedIsScoped
<1>5. ASSUME NEW h \in Handlers, ReviewAccepts(h) PROVE ScopeInv'
  BY <1>5 DEF ReviewAccepts, Reviewed, Goto, CachedIsScoped,
     InFlightIsScoped, ServedIsScoped
<1>6. ASSUME NEW h \in Handlers, StoreResult(h) PROVE ScopeInv'
  <2>1. /\ pc[h] = "store" /\ pc' = [pc EXCEPT ![h] = "authorised"]
        /\ UNCHANGED <<req, resp>>
        /\ cached' \subseteq cached \cup {AuthKey(h)}
    BY <1>6 DEF StoreResult, Goto
  <2> QED
    BY <2>1 DEF AuthKey, CachedIsScoped, InFlightIsScoped, ServedIsScoped
<1>7. ASSUME NEW h \in Handlers, Respond(h) PROVE ScopeInv'
  <2>1. /\ pc[h] = "authorised" /\ pc' = [pc EXCEPT ![h] = "idle"]
        /\ UNCHANGED <<req, cached>>
    BY <1>7 DEF Respond, Answer
  <2>2. \E o \in Outcomes :
          /\ resp' = [resp EXCEPT ![h] = o]
          /\ o \in {"served", "notFound"} => NamespaceMatches(h)
    BY <1>7 DEF Respond, Answer, Outcomes
  <2> QED
    BY <2>1, <2>2 DEF NamespaceMatches, CachedIsScoped, InFlightIsScoped, ServedIsScoped
<1>8. CASE Publish
  BY <1>8 DEF Publish, CachedIsScoped, InFlightIsScoped, ServedIsScoped
<1>9. ASSUME NEW t \in Tokens, Revoke(t) PROVE ScopeInv'
  BY <1>9 DEF Revoke, CachedIsScoped, InFlightIsScoped, ServedIsScoped
<1>10. CASE Tick
  BY <1>10 DEF Tick, CachedIsScoped, InFlightIsScoped, ServedIsScoped
<1>11. CASE UNCHANGED vars
  BY <1>11 DEF vars, CachedIsScoped, InFlightIsScoped, ServedIsScoped
<1> QED
  BY <1>1, <1>2, <1>3, <1>4, <1>5, <1>6, <1>7, <1>8, <1>9, <1>10, <1>11
     DEF Next, Handle

-----------------------------------------------------------------------------
(* The size of the map.                                                    *)

\* Every change of the map, racing or not, moves the count at least as far
\* up and at most as far down.
LEMMA NextSize ==
  ASSUME TypeOK, SizeInv, [Next]_vars
  PROVE  SizeInv'
<1> USE DEF SizeInv, AuthCacheBounded
<1>0. Cardinality(cached) \in Nat
  BY FS_CardinalityType
<1>1. ASSUME NEW h \in Handlers, DropExpired(h) PROVE SizeInv'
  <2>1. /\ IsFiniteSet(cached \ {AuthKey(h)})
        /\ Cardinality(cached \ {AuthKey(h)}) =
             IF AuthKey(h) \in cached THEN Cardinality(cached) - 1
             ELSE Cardinality(cached)
    BY FS_RemoveElement
  <2> QED
    BY <1>0, <1>1, <2>1, ServerAssumption DEF DropExpired, TypeOK
<1>2. ASSUME NEW h \in Handlers, StoreResult(h) PROVE SizeInv'
  <2> DEFINE evicted == {k \in cached : cacheSize >= maxAuthCacheSize /\ ttl[k] < 0}
             kept == cached \ evicted
             size == cacheSize - Cardinality(evicted)
  <2>1. IsFiniteSet(evicted) /\ Cardinality(evicted) \in Nat
    BY FS_Subset, FS_CardinalityType
  <2>2. cached \cap evicted = evicted
    OBVIOUS
  <2>3. IsFiniteSet(kept) /\ Cardinality(kept) = Cardinality(cached) - Cardinality(evicted)
    BY <2>2, FS_Difference
  <2>4. /\ IsFiniteSet(kept \cup {AuthKey(h)})
        /\ Cardinality(kept \cup {AuthKey(h)}) <= Cardinality(kept) + 1
    <3> HIDE DEF kept
    <3>1. Cardinality(kept) \in Nat
      BY <2>3, FS_CardinalityType
    <3>2. IsFiniteSet(kept)
      BY <2>3
    <3>3. /\ IsFiniteSet(kept \cup {AuthKey(h)})
          /\ Cardinality(kept \cup {AuthKey(h)}) =
               IF AuthKey(h) \in kept THEN Cardinality(kept) ELSE Cardinality(kept) + 1
      BY <3>2, FS_AddElement
    <3> QED
      BY <3>1, <3>3
  <2>5. CASE size < maxAuthCacheSize
    <3>1. cached' = kept \cup {AuthKey(h)} /\ cacheSize' = size + 1
      BY <1>2, <2>5 DEF StoreResult
    <3> HIDE DEF kept, evicted
    <3>2. Cardinality(cached') \in Nat
      BY <3>1, <2>4, FS_CardinalityType
    <3> QED
      BY <1>0, <2>1, <2>3, <2>4, <2>5, <3>1, <3>2, ServerAssumption DEF TypeOK
  <2>6. CASE ~(size < maxAuthCacheSize)
    <3>1. cached' = kept \cup {} /\ cacheSize' = size
      BY <1>2, <2>6 DEF StoreResult
    <3>2. cached' = kept
      BY <3>1
    <3> HIDE DEF kept, evicted
    <3> QED
      BY <1>0, <2>1, <2>3, <3>1, <3>2, ServerAssumption DEF TypeOK
  <2> QED
    BY <2>5, <2>6
<1>3. CASE UNCHANGED <<cached, cacheSize>>
  BY <1>3
<1>4. ASSUME NEW h \in Handlers,
             \/ LookUp(h) \/ ReviewFails(h) \/ ReviewRejects(h)
             \/ ReviewAccepts(h) \/ Respond(h)
      PROVE  UNCHANGED <<cached, cacheSize>>
  BY <1>4 DEF LookUp, ReviewFails, ReviewRejects, ReviewAccepts, Respond, authVars
<1>5. ASSUME NEW h \in Handlers, NEW method, NEW request,
             Receive(h, method, request)
      PROVE  UNCHANGED <<cached, cacheSize>>
  BY <1>5 DEF Receive, authVars
<1>6. ASSUME Publish \/ (\E t \in Tokens : Revoke(t)) \/ Tick \/ UNCHANGED vars
      PROVE  UNCHANGED <<cached, cacheSize>>
  BY <1>6 DEF Publish, Revoke, Tick, vars, authVars
<1> QED
  BY <1>1, <1>2, <1>3, <1>4, <1>5, <1>6 DEF Next, Handle

-----------------------------------------------------------------------------
(* Who is entitled is let in.                                              *)

\* Cutting off what was appended.
LEMMA CutAppended ==
  ASSUME NEW S, NEW key \in Seq(S), NEW word \in S
  PROVE  /\ Len(Append(key, word)) = Len(key) + 1
         /\ Append(key, word)[Len(key) + 1] = word
         /\ SubSeq(Append(key, word), 1, Len(key)) = key
<1> DEFINE path == Append(key, word)
<1>1. /\ path \in Seq(S) /\ Len(path) = Len(key) + 1 /\ path[Len(key) + 1] = word
      /\ \A i \in 1..Len(key) : path[i] = key[i]
  BY AppendProperties
<1> HIDE DEF path
<1>2. /\ SubSeq(path, 1, Len(key)) \in Seq(S)
      /\ Len(SubSeq(path, 1, Len(key))) = Len(key)
      /\ \A i \in 1..Len(key) : SubSeq(path, 1, Len(key))[i] = path[i]
  BY <1>1
<1>3. SubSeq(path, 1, Len(key)) = key
  BY <1>1, <1>2, SeqEqual
<1> QED
  BY <1>1, <1>3 DEF path

\* Both endpoints of a RuleSet lead to its key in the cache.
LEMMA EndpointKey ==
  ASSUME NEW rs \in RuleSets, NEW path \in Endpoints(rs)
  PROVE  CacheKey(path) = rs
<1>1. PICK namespace, name : rs = <<namespace, name>>
  BY ServerAssumption
<1>2. rs \in Seq({namespace, name, "latest"}) /\ Len(rs) = 2 /\ rs[2] = name
  BY <1>1
<1>3. CASE path = Append(rs, "latest")
  <2>1. /\ Len(path) = Len(rs) + 1 /\ path[Len(rs) + 1] = "latest"
        /\ SubSeq(path, 1, Len(rs)) = rs
    BY <1>2, <1>3, CutAppended, "latest" \in {namespace, name, "latest"}
  <2> QED
    BY <1>2, <2>1 DEF CacheKey, isLatest
<1>4. CASE path = rs /\ name # "latest"
  <2>1. ~isLatest(path)
    BY <1>2, <1>4 DEF isLatest
  <2> QED
    BY <1>4, <2>1 DEF CacheKey
<1> QED
  BY <1>2, <1>3, <1>4 DEF Endpoints

\* A refusal of the header, the review or the namespace check always has its
\* reason in the request, and the reasons last: tokens are not unrevoked.
LEMMA NextEntitled ==
  ASSUME TypeOK, InFlightIsScoped, EntitledNotForbidden, [Next]_vars
  PROVE  EntitledNotForbidden'
<1> USE DEF EntitledNotForbidden, TypeOK
<1>1. ASSUME NEW h \in Handlers, NEW method \in {"GET", "POST"}, NEW request \in Requests,
             Receive(h, method, request)
      PROVE  EntitledNotForbidden'
  <2>1. \A g \in Handlers \ {h} : resp'[g] = resp[g] /\ req'[g] = req[g]
    BY <1>1 DEF Receive, Answer
  <2>2. req'[h] = request /\ (resp'[h] = "forbidden" => request.token = NoToken)
    BY <1>1 DEF Receive, Answer
  <2> QED
    BY <1>1, <2>1, <2>2, ServerAssumption DEF Receive
<1>2. ASSUME NEW h \in Handlers,
             LookUp(h) \/ DropExpired(h) \/ ReviewAccepts(h) \/ StoreResult(h)
      PROVE  UNCHANGED <<req, resp, revoked>>
  BY <1>2 DEF LookUp, DropExpired, ReviewAccepts, StoreResult, Goto
<1>3. ASSUME NEW h \in Handlers, ReviewFails(h) PROVE EntitledNotForbidden'
  BY <1>3 DEF ReviewFails, Answer
<1>4. ASSUME NEW h \in Handlers, ReviewRejects(h) PROVE EntitledNotForbidden'
  <2>1. UNCHANGED <<req, revoked>> /\ \A g \in Handlers \ {h} : resp'[g] = resp[g]
    BY <1>4 DEF ReviewRejects, Answer
  <2>2. ASSUME NEW rs \in RuleSets, req[h].path \in Endpoints(rs),
               req[h].token \in Tokens \ revoked, TokenAudience[req[h].token] = rs,
               TokenNamespace[req[h].token] = rs[1]
        PROVE  FALSE
    BY <1>4, <2>2, EndpointKey, ServerAssumption DEF ReviewRejects, Reviewed
  <2> QED
    BY <2>1, <2>2
<1>5. ASSUME NEW h \in Handlers, Respond(h) PROVE EntitledNotForbidden'
  <2>1. UNCHANGED <<req, revoked>> /\ \A g \in Handlers \ {h} : resp'[g] = resp[g]
    BY <1>5 DEF Respond, Answer
  <2>2. resp'[h] = "forbidden" => ~NamespaceMatches(h)
    BY <1>5 DEF Respond, Answer
  <2>3. ASSUME NEW rs \in RuleSets, req[h].path \in Endpoints(rs),
               TokenNamespace[req[h].token] = rs[1]
        PROVE  NamespaceMatches(h)
    <3>1. CacheKey(req[h].path) = rs
      BY <2>3, EndpointKey
    <3>2. rs = <<rs[1], rs[2]>>
      BY ServerAssumption
    <3>3. Len(rs) = 2
      BY <3>2
    <3> QED
      BY <2>3, <3>1, <3>3 DEF NamespaceMatches
  <2> QED
    BY <2>1, <2>2, <2>3
<1>6. ASSUME NEW t \in Tokens, Revoke(t) PROVE EntitledNotForbidden'
  BY <1>6 DEF Revoke
<1>7. ASSUME Publish \/ Tick \/ UNCHANGED vars PROVE UNCHANGED <<req, resp, revoked>>
  BY <1>7 DEF Publish, Tick, vars
<1>8. CASE UNCHANGED <<req, resp, revoked>>
  BY <1>8
<1> QED
  BY <1>1, <1>2, <1>3, <1>4, <1>5, <1>6, <1>7, <1>8 DEF Next, Handle

-----------------------------------------------------------------------------
\* Types, scope and size together are inductive.
LEMMA ServerInvariant == Spec => [](TypeOK /\ ScopeInv /\ SizeInv)
<1>1. TypeOK /\ ScopeInv /\ SizeInv /\ [Next]_vars => (TypeOK /\ ScopeInv /\ SizeInv)'
  BY NextType, NextScope, NextSize DEF ScopeInv, SizeInv
<1> QED
  BY InitInv, <1>1, PTL DEF Spec

\* Every variable of the server keeps its type.
THEOREM TypeCorrect == Spec => []TypeOK
BY ServerInvariant, PTL

\* Only holders of a token bound to a RuleSet, from its namespace, ever get
\* to its cache entry, however requests share and race on cached results.
THEOREM AccessIsScoped == Spec => []ServedIsScoped
BY ServerInvariant, PTL DEF ScopeInv

\* Nobody with a live token of a RuleSet's own is turned away from either of
\* its endpoints, whatever is cached and whoever races.
THEOREM EntitledIsAdmitted == Spec => []EntitledNotForbidden
<1>1. Init => EntitledNotForbidden
  BY DEF Init, EntitledNotForbidden
<1>2. TypeOK /\ ScopeInv /\ EntitledNotForbidden /\ [Next]_vars => EntitledNotForbidden'
  BY NextEntitled DEF ScopeInv
<1> QED
  BY <1>1, <1>2, ServerInvariant, PTL DEF Spec

\* The authentication cache never exceeds its limit, for any number of
\* requests in flight.
THEOREM AuthCacheIsBounded == Spec => []AuthCacheBounded
BY ServerInvariant, PTL DEF SizeInv
=============================================================================
