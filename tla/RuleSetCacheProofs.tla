------------------------- MODULE RuleSetCacheProofs -------------------------
(***************************************************************************)
(* Proofs about RuleSetCache: its invariants for every set of instances,   *)
(* payload sizes, age and size limits, and that it implements RulesStore.  *)
(***************************************************************************)
EXTENDS RuleSetCache, FiniteSetTheorems, WellFoundedInduction, TLAPS

-----------------------------------------------------------------------------
(* Sizes.                                                                  *)

\* The bytes of a finite set of entries are a finite set, so SizeOf, on
\* which all size accounting of the cache rests, is a natural number.
LEMMA BytesFinite ==
  ASSUME NEW S, IsFiniteSet(S)
  PROVE  IsFiniteSet(Bytes(S)) /\ SizeOf(S) \in Nat
<1>1. IsFiniteSet(1..MaxPayloadSize)
  BY SizeAssumption, FS_Interval
<1>2. IsFiniteSet(S \X (1..MaxPayloadSize))
  BY <1>1, FS_Product
<1>3. Bytes(S) \in SUBSET (S \X (1..MaxPayloadSize))
  BY DEF Bytes
<1> QED
  BY <1>2, <1>3, FS_Subset, FS_CardinalityType DEF SizeOf

\* The size of one entry is its entrySize, as Put adds it.
LEMMA SizeOfOne ==
  ASSUME NEW e \in Entry
  PROVE  SizeOf({e}) = entrySize(e) /\ entrySize(e) \in Nat
<1> DEFINE n == entrySize(e)
<1>1. n \in 0..MaxPayloadSize
  BY SizeAssumption DEF entrySize, Entry
<1>2. Bytes({e}) = {e} \X (1..n)
  BY <1>1, SizeAssumption DEF Bytes
<1>3. IsFiniteSet(1..n) /\ Cardinality(1..n) = n
  BY <1>1, FS_Interval
<1>4. IsFiniteSet({e}) /\ Cardinality({e}) = 1
  BY FS_Singleton
<1>5. Cardinality({e} \X (1..n)) = 1 * n
  BY <1>3, <1>4, FS_Product
<1> QED
  BY <1>1, <1>2, <1>5, SizeAssumption DEF SizeOf

\* Put's accounting: one more entry adds exactly its size and one.
LEMMA SizeOfAdd ==
  ASSUME NEW S, IsFiniteSet(S), NEW e \in Entry, e \notin S
  PROVE  /\ SizeOf(S \cup {e}) = SizeOf(S) + entrySize(e)
         /\ Cardinality(S \cup {e}) = Cardinality(S) + 1
         /\ IsFiniteSet(S \cup {e})
<1>1. IsFiniteSet({e})
  BY FS_Singleton
<1>2. Bytes(S \cup {e}) = Bytes(S) \cup Bytes({e})
  BY DEF Bytes
<1>3. Bytes(S) \cap Bytes({e}) = {}
  BY DEF Bytes
<1>4. Cardinality(Bytes(S) \cup Bytes({e})) =
        Cardinality(Bytes(S)) + Cardinality(Bytes({e}))
          - Cardinality(Bytes(S) \cap Bytes({e}))
  BY <1>1, BytesFinite, FS_Union
<1>5. Cardinality({}) = 0
  BY FS_EmptySet
<1>6. SizeOf(S \cup {e}) = SizeOf(S) + SizeOf({e}) - 0
  BY <1>2, <1>3, <1>4, <1>5 DEF SizeOf
<1>7. SizeOf(S) \in Nat /\ SizeOf({e}) \in Nat
  BY <1>1, BytesFinite
<1> QED
  BY <1>6, <1>7, SizeOfOne, FS_AddElement

\* The accounting of both prune methods: taking a subset away takes exactly
\* its size and its number away.
LEMMA SizeOfRemove ==
  ASSUME NEW S, IsFiniteSet(S), NEW T \in SUBSET S
  PROVE  /\ SizeOf(S \ T) = SizeOf(S) - SizeOf(T)
         /\ Cardinality(S \ T) = Cardinality(S) - Cardinality(T)
         /\ IsFiniteSet(S \ T)
         /\ IsFiniteSet(T)
<1>1. Bytes(S \ T) = Bytes(S) \ Bytes(T)
  BY DEF Bytes
<1>2. Bytes(S) \cap Bytes(T) = Bytes(T)
  BY DEF Bytes
<1>3. Cardinality(Bytes(S) \ Bytes(T)) =
        Cardinality(Bytes(S)) - Cardinality(Bytes(S) \cap Bytes(T))
  BY BytesFinite, FS_Difference
<1>4. S \cap T = T
  OBVIOUS
<1>5. /\ IsFiniteSet(S \ T)
      /\ Cardinality(S \ T) = Cardinality(S) - Cardinality(S \cap T)
  BY FS_Difference
<1>6. IsFiniteSet(T)
  BY FS_Subset
<1> QED
  BY <1>1, <1>2, <1>3, <1>4, <1>5, <1>6 DEF SizeOf

-----------------------------------------------------------------------------
(* The inductive invariant.                                                *)

\* Revisions are told apart by their uuid, all of them handed out by Put.
UUIDsFresh ==
  /\ \A e \in entries : e.uuid \in 1..lastUUID
  /\ \A e, f \in entries : e.uuid = f.uuid => e = f

\* An instance without a Latest mark has no revisions; a mark points at a
\* uuid that was handed out.
MarksSound ==
  \A i \in Instances :
    /\ latest[i] <= lastUUID
    /\ latest[i] = 0 => \A e \in entries : e.instance # i

IInv ==
  /\ TypeOK
  /\ IsFiniteSet(entries)
  /\ UUIDsFresh
  /\ MarksSound
  /\ LatestRetained
  /\ AccountingExact
  /\ RevisionsConserved

\* Nothing a prune call removes carries the Latest mark of its instance.
LEMMA PrunedIsPrunable ==
  /\ TooOld \subseteq Prunable
  /\ \A order : Excess(order) \subseteq Prunable
  /\ Prunable \subseteq entries
BY DEF TooOld, Excess, Prunable

\* The empty cache satisfies the invariant.
LEMMA InitInv == Init => IInv
<1> SUFFICES ASSUME Init PROVE IInv
  OBVIOUS
<1> USE DEF Init
<1>1. TypeOK
  <2>1. latest \in [Instances -> 0..MaxRevisions]
    BY BoundsAssumption
  <2>2. lastUUID \in 0..MaxRevisions /\ now \in 0..MaxTime
    BY BoundsAssumption
  <2>3. gcPC \in GCStates /\ prunedTotal \in [age : Nat, size : Nat]
    BY DEF GCStates
  <2>4. entries \subseteq Entry /\ alarm \in BOOLEAN
    BY Zenon
  <2>5. totalSize \in Int /\ totalEntries \in Int /\ gcPruned \in Nat
    OBVIOUS
  <2> HIDE DEF Init
  <2> QED
    BY <2>1, <2>2, <2>3, <2>4, <2>5 DEF TypeOK
<1>2. Bytes({}) = {}
  BY DEF Bytes
<1>3. IsFiniteSet(entries) /\ AccountingExact
  BY <1>2, FS_EmptySet DEF AccountingExact, SizeOf
<1>4. UUIDsFresh /\ MarksSound /\ LatestRetained /\ RevisionsConserved
  BY DEF UUIDsFresh, MarksSound, LatestRetained, RevisionsConserved
<1> QED
  BY <1>1, <1>3, <1>4 DEF IInv

\* Put keeps the invariant: the new uuid is fresh and becomes the mark.
LEMMA PutInv ==
  ASSUME IInv, NEW i \in Instances, NEW p \in Payloads, Put(i, p)
  PROVE  IInv'
<1> DEFINE e == NewEntry(i, p)
<1> USE DEF IInv
<1>1. e \in Entry /\ e.uuid = lastUUID + 1 /\ e.instance = i
  BY BoundsAssumption DEF NewEntry, Entry, TypeOK
<1>2. e \notin entries
  BY <1>1 DEF UUIDsFresh, TypeOK
<1>3. TypeOK'
  BY <1>1, SizeOfOne, BoundsAssumption DEF Put, TypeOK, gcVars
<1>4. AccountingExact' /\ IsFiniteSet(entries)'
  BY <1>1, <1>2, SizeOfAdd DEF Put, AccountingExact
<1>5. UUIDsFresh'
  BY <1>1 DEF Put, UUIDsFresh, TypeOK
<1>6. MarksSound'
  BY <1>1 DEF Put, MarksSound, TypeOK
<1>7. LatestRetained'
  <2> SUFFICES ASSUME NEW j \in Instances, latest'[j] # 0
               PROVE  /\ Found(j)'
                      /\ \A f \in entries' : f.instance = j => f.uuid <= latest'[j]
    BY DEF LatestRetained
  <2>1. CASE j = i
    BY <2>1, <1>1 DEF Put, Found, UUIDsFresh, TypeOK
  <2>2. CASE j # i
    BY <2>2, <1>1 DEF Put, Found, LatestRetained, TypeOK
  <2> QED
    BY <2>1, <2>2
<1>8. RevisionsConserved'
  BY DEF Put, RevisionsConserved, TypeOK, gcVars
<1> QED
  BY <1>3, <1>4, <1>5, <1>6, <1>7, <1>8

\* Removing unmarked revisions, with the accounting both prune methods do,
\* keeps everything but the loop's own program counter and alarm in order.
LEMMA RemoveInv ==
  ASSUME IInv, gcPruned = 0, NEW removed \in SUBSET Prunable, Remove(removed),
         gcPC' \in GCStates, alarm' \in BOOLEAN
  PROVE  IInv'
<1> USE DEF IInv
<1>1. removed \in SUBSET entries
  BY PrunedIsPrunable
<1>2. /\ IsFiniteSet(entries \ removed)
      /\ SizeOf(entries \ removed) = SizeOf(entries) - SizeOf(removed)
      /\ Cardinality(entries \ removed) = Cardinality(entries) - Cardinality(removed)
      /\ SizeOf(removed) \in Nat
      /\ Cardinality(removed) \in Nat
  BY <1>1, SizeOfRemove, BytesFinite, FS_CardinalityType
<1>3. TypeOK'
  BY <1>2 DEF Remove, TypeOK
<1>4. AccountingExact' /\ IsFiniteSet(entries)'
  BY <1>2 DEF Remove, AccountingExact
<1>5. UUIDsFresh' /\ MarksSound'
  BY DEF Remove, UUIDsFresh, MarksSound
<1>6. LatestRetained'
  <2> SUFFICES ASSUME NEW j \in Instances, latest[j] # 0
               PROVE  /\ Found(j)'
                      /\ \A f \in entries' : f.instance = j => f.uuid <= latest[j]
    BY DEF LatestRetained, Remove
  <2>1. PICK e \in entries : e.instance = j /\ e.uuid = latest[j]
    BY DEF LatestRetained, Found
  <2>2. e \notin removed
    BY <2>1 DEF Prunable, IsLatest
  <2> QED
    BY <2>1, <2>2 DEF Remove, Found, LatestRetained
<1>7. RevisionsConserved'
  BY <1>2 DEF Remove, RevisionsConserved, TypeOK
<1> QED
  BY <1>3, <1>4, <1>5, <1>6, <1>7

\* Between two cycles, and after the metric was advanced, the loop holds no
\* result of a prune call.
PendingResult ==
  gcPC \in {"idle", "shrink", "stopped"} => gcPruned = 0

\* Every step of the cache, its clock and its collector keeps the invariant.
LEMMA NextInv ==
  ASSUME IInv, PendingResult, [Next]_vars
  PROVE  IInv' /\ PendingResult'
<1> USE DEF IInv, PendingResult
<1>1. ASSUME NEW i \in Instances, NEW p \in Payloads, Put(i, p)
      PROVE  IInv' /\ PendingResult'
  BY <1>1, PutInv DEF Put, gcVars
<1>2. CASE Tick
  <2>1. TypeOK'
    BY <1>2, BoundsAssumption DEF Tick, TypeOK, cacheVars, gcVars
  <2> QED
    BY <2>1, <1>2 DEF Tick, cacheVars, gcVars, UUIDsFresh, MarksSound,
       LatestRetained, Found, AccountingExact, RevisionsConserved
<1>3. CASE Prune
  <2>1. Remove(TooOld) /\ TooOld \in SUBSET Prunable
    BY <1>3, PrunedIsPrunable DEF Prune
  <2>2. gcPruned = 0 /\ gcPC' = "measure" /\ alarm' = FALSE
    BY <1>3 DEF Prune
  <2>3. gcPC' \in GCStates /\ alarm' \in BOOLEAN
    BY <2>2 DEF GCStates
  <2>4. IInv'
    BY <2>1, <2>2, <2>3, RemoveInv
  <2> QED
    BY <2>2, <2>4
<1>4. CASE GCMeasure
  <2>1. TypeOK'
    BY <1>4 DEF GCMeasure, TypeOK, cacheVars, GCStates
  <2>2. RevisionsConserved'
    BY <1>4 DEF GCMeasure, RevisionsConserved, TypeOK, cacheVars
  <2> QED
    BY <2>1, <2>2, <1>4 DEF GCMeasure, cacheVars, UUIDsFresh, MarksSound,
       LatestRetained, Found, AccountingExact
<1>5. ASSUME NEW order \in Orders, PruneBySize(order)
      PROVE  IInv' /\ PendingResult'
  <2>1. Remove(Excess(order)) /\ Excess(order) \in SUBSET Prunable
    BY <1>5, PrunedIsPrunable DEF PruneBySize
  <2>2. gcPruned = 0 /\ gcPC' = "recheck" /\ alarm' = alarm
    BY <1>5 DEF PruneBySize
  <2>3. gcPC' \in GCStates /\ alarm' \in BOOLEAN
    BY <2>2 DEF GCStates, TypeOK
  <2>4. IInv'
    BY <2>1, <2>2, <2>3, RemoveInv
  <2> QED
    BY <2>2, <2>4
<1>6. CASE GCRecheck
  <2>1. (totalSize > MaxSize) \in BOOLEAN
    OBVIOUS
  <2>2. TypeOK'
    BY <2>1, <1>6 DEF GCRecheck, TypeOK, cacheVars, GCStates
  <2>3. RevisionsConserved'
    BY <1>6 DEF GCRecheck, RevisionsConserved, TypeOK, cacheVars
  <2> QED
    BY <2>2, <2>3, <1>6 DEF GCRecheck, cacheVars, UUIDsFresh, MarksSound,
       LatestRetained, Found, AccountingExact
<1>7. CASE GCStop
  <2>1. TypeOK'
    BY <1>7 DEF GCStop, TypeOK, cacheVars, GCStates
  <2> QED
    BY <2>1, <1>7 DEF GCStop, cacheVars, UUIDsFresh, MarksSound,
       LatestRetained, Found, AccountingExact, RevisionsConserved
<1>8. CASE UNCHANGED vars
  <2>1. TypeOK'
    BY <1>8 DEF vars, TypeOK
  <2> QED
    BY <2>1, <1>8 DEF vars, UUIDsFresh, MarksSound,
       LatestRetained, Found, AccountingExact, RevisionsConserved
<1> QED
  BY <1>1, <1>2, <1>3, <1>4, <1>5, <1>6, <1>7, <1>8 DEF Next, GCStep, Shrink

\* The conjunction holds in every state of every behaviour.
LEMMA CacheInvariant == Spec => [](IInv /\ PendingResult)
<1>1. Init => IInv /\ PendingResult
  BY InitInv DEF Init, PendingResult
<1>2. (IInv /\ PendingResult) /\ [Next]_vars => (IInv /\ PendingResult)'
  BY NextInv
<1> QED
  BY <1>1, <1>2, PTL DEF Spec

-----------------------------------------------------------------------------
(* The invariants.                                                         *)

\* Every variable of the cache and its collector keeps its type.
THEOREM TypeCorrect == Spec => []TypeOK
BY CacheInvariant, PTL DEF IInv

\* An instance that was ever put stays retrievable, at its newest revision,
\* whatever Prune and PruneBySize remove and whenever they run.
THEOREM LatestIsRetained == Spec => []LatestRetained
BY CacheInvariant, PTL DEF IInv

\* The incremental byte and entry counters never drift from the contents.
THEOREM AccountingIsExact == Spec => []AccountingExact
BY CacheInvariant, PTL DEF IInv

\* The pruning metrics account for every revision that left the cache.
THEOREM RevisionsAreConserved == Spec => []RevisionsConserved
BY CacheInvariant, PTL DEF IInv

-----------------------------------------------------------------------------
(* What PruneBySize takes: a beginning of its walk over the map.           *)

\* A set of numbers has a least one.
LEMMA LeastNumber ==
  ASSUME NEW T \in SUBSET Nat, T # {}
  PROVE  \E x \in T : \A y \in T : x <= y
<1>1. IsWellFoundedOn(OpToRel(<, Nat), Nat)
  BY NatLessThanWellFounded
<1>2. PICK x \in T : \A y \in T : ~(<<y, x>> \in OpToRel(<, Nat))
  BY <1>1, WFMin, Zenon
<1>3. \A y \in T : ~(y < x)
  BY <1>2 DEF OpToRel
<1> QED
  BY <1>3

\* The walk visits the revisions one after another.
LEMMA WalkIsLinear ==
  ASSUME IInv, NEW order \in Orders
  PROVE  /\ \A e \in entries : order[e.instance] \in Nat /\ e.uuid \in 1..lastUUID
         /\ \A e \in entries : ~Before(order, e, e)
         /\ \A e, f \in entries : e = f \/ Before(order, e, f) \/ Before(order, f, e)
         /\ \A e, f, g \in entries :
              Before(order, e, f) /\ Before(order, f, g) => Before(order, e, g)
<1>1. /\ \A i \in Instances : order[i] \in 1..Cardinality(Instances)
      /\ \A i, j \in Instances : order[i] = order[j] => i = j
  BY DEF Orders
<1>2. \A e \in entries : e.instance \in Instances /\ order[e.instance] \in Nat
  <2>1. \A e \in entries : e.instance \in Instances
    BY DEF IInv, TypeOK, Entry
  <2>2. Cardinality(Instances) \in Nat
    BY BoundsAssumption, FS_CardinalityType
  <2> QED
    BY <1>1, <2>1, <2>2
<1>3. \A e \in entries : e.uuid \in 1..lastUUID /\ e.uuid \in Nat /\ lastUUID \in Nat
  BY DEF IInv, TypeOK, Entry, UUIDsFresh
<1>4. \A e, f \in entries : e.uuid = f.uuid => e = f
  BY DEF IInv, UUIDsFresh
<1>5. \A e, f \in entries : order[e.instance] = order[f.instance] => e.instance = f.instance
  BY <1>1, <1>2
<1>6. \A e \in entries : ~Before(order, e, e)
  BY <1>2, <1>3 DEF Before
<1>7. \A e, f \in entries : e = f \/ Before(order, e, f) \/ Before(order, f, e)
  BY <1>2, <1>3, <1>4, <1>5 DEF Before
<1>8. \A e, f, g \in entries :
        Before(order, e, f) /\ Before(order, f, g) => Before(order, e, g)
  BY <1>2, <1>3 DEF Before
<1> QED
  BY <1>2, <1>3, <1>6, <1>7, <1>8

\* Some revision of a set is visited first.
LEMMA FirstVisited ==
  ASSUME IInv, NEW order \in Orders, NEW T \in SUBSET entries, T # {}
  PROVE  \E e \in T : \A f \in T : f = e \/ Before(order, e, f)
<1>1. /\ \A e \in T : order[e.instance] \in Nat /\ e.uuid \in Nat
      /\ \A e, f \in T : e = f \/ Before(order, e, f) \/ Before(order, f, e)
  BY WalkIsLinear DEF IInv, TypeOK, Entry
<1> DEFINE Places == {order[e.instance] : e \in T}
<1>2. PICK place \in Places : \A p \in Places : place <= p
  <2>1. Places # {} /\ Places \in SUBSET Nat
    BY <1>1
  <2> QED
    BY <2>1, LeastNumber
<1> DEFINE Uuids == {e.uuid : e \in {f \in T : order[f.instance] = place}}
<1>3. PICK uuid \in Uuids : \A u \in Uuids : uuid <= u
  <2>1. Uuids # {} /\ Uuids \in SUBSET Nat
    BY <1>1
  <2> QED
    BY <2>1, LeastNumber
<1>4. PICK e \in T : order[e.instance] = place /\ e.uuid = uuid
  BY <1>3
<1>5. ASSUME NEW f \in T, Before(order, f, e)
      PROVE  FALSE
  <2>1. place <= order[f.instance]
    BY <1>2
  <2>2. f.instance = e.instance /\ f.uuid < e.uuid
    BY <1>1, <1>4, <1>5, <2>1 DEF Before
  <2>3. uuid <= f.uuid
    BY <1>3, <1>4, <2>2
  <2> QED
    BY <1>1, <1>4, <2>2, <2>3
<1> QED
  BY <1>1, <1>4, <1>5

\* And some revision is visited last.
LEMMA LastVisited ==
  ASSUME IInv, NEW order \in Orders, NEW T \in SUBSET entries, T # {}
  PROVE  \E e \in T : \A f \in T : f = e \/ Before(order, f, e)
<1> DEFINE n == Cardinality(Instances)
<1>1. n \in Nat /\ lastUUID \in Nat
  BY BoundsAssumption, FS_CardinalityType DEF IInv, TypeOK
<1> HIDE DEF n
<1>2. \A e \in T : order[e.instance] \in 1..n /\ e.uuid \in 1..lastUUID
  BY WalkIsLinear DEF IInv, TypeOK, Entry, Orders, n
<1>3. \A e, f \in T : e = f \/ Before(order, e, f) \/ Before(order, f, e)
  BY WalkIsLinear
<1> DEFINE Places == {n - order[e.instance] : e \in T}
<1>4. PICK place \in Places : \A p \in Places : place <= p
  <2>1. Places # {} /\ Places \in SUBSET Nat
    BY <1>1, <1>2
  <2> QED
    BY <2>1, LeastNumber
<1> DEFINE Uuids == {lastUUID - e.uuid : e \in {f \in T : n - order[f.instance] = place}}
<1>5. PICK uuid \in Uuids : \A u \in Uuids : uuid <= u
  <2>1. Uuids # {} /\ Uuids \in SUBSET Nat
    BY <1>1, <1>2
  <2> QED
    BY <2>1, LeastNumber
<1>6. PICK e \in T : n - order[e.instance] = place /\ lastUUID - e.uuid = uuid
  BY <1>5
<1>7. ASSUME NEW f \in T, Before(order, e, f)
      PROVE  FALSE
  <2>1. place <= n - order[f.instance]
    BY <1>4
  <2>2. f.instance = e.instance /\ e.uuid < f.uuid
    BY <1>1, <1>2, <1>6, <1>7, <2>1 DEF Before
  <2>3. uuid <= lastUUID - f.uuid
    BY <1>5, <1>6, <2>2
  <2> QED
    BY <1>1, <1>2, <1>6, <2>2, <2>3
<1> QED
  BY <1>3, <1>6, <1>7

\* A part of a finite set is no larger.
LEMMA SizeOfSubset ==
  ASSUME NEW S, IsFiniteSet(S), NEW T \in SUBSET S
  PROVE  SizeOf(T) <= SizeOf(S) /\ SizeOf(T) \in Nat /\ SizeOf(S) \in Nat
<1>1. SizeOf(S \ T) = SizeOf(S) - SizeOf(T) /\ IsFiniteSet(S \ T) /\ IsFiniteSet(T)
  BY SizeOfRemove
<1>2. SizeOf(S \ T) \in Nat /\ SizeOf(T) \in Nat /\ SizeOf(S) \in Nat
  BY <1>1, BytesFinite
<1> QED
  BY <1>1, <1>2

\* What is visited before a revision that goes, goes.
LEMMA ExcessIsBeginning ==
  ASSUME IInv, NEW order \in Orders, NEW e \in Excess(order), NEW f \in Prunable,
         Before(order, f, e)
  PROVE  f \in Excess(order)
<1> DEFINE Visited(x) == {g \in Prunable : Before(order, g, x)}
<1>1. e \in entries /\ Prunable \subseteq entries /\ IsFiniteSet(entries)
  BY PrunedIsPrunable DEF IInv
<1>2. Visited(f) \subseteq Visited(e)
  BY <1>1, WalkIsLinear
<1>3. IsFiniteSet(Visited(e))
  BY <1>1, FS_Subset
<1>4. SizeOf(Visited(f)) <= SizeOf(Visited(e)) /\ SizeOf(Visited(f)) \in Nat
      /\ SizeOf(Visited(e)) \in Nat
  BY <1>2, <1>3, SizeOfSubset
<1>5. totalSize - SizeOf(Visited(e)) > MaxSize
  BY DEF Excess
<1>6. totalSize - SizeOf(Visited(f)) > MaxSize
  BY <1>4, <1>5, BoundsAssumption DEF IInv, TypeOK
<1> QED
  BY <1>6 DEF Excess

\* One call of PruneBySize, in whichever order it walks the map.
LEMMA ShrinkStep ==
  ASSUME IInv, NEW order \in Orders, PruneBySize(order)
  PROVE  LET removed == entries \ entries' IN
         /\ totalSize' <= MaxSize \/ Prunable' = {}
         /\ removed # {} => \E e \in removed : totalSize' + entrySize(e) > MaxSize
         /\ \A e \in removed, f \in Prunable' :
              e.instance = f.instance => e.uuid < f.uuid
<1> DEFINE E == Excess(order)
           Visited(x) == {g \in Prunable : Before(order, g, x)}
<1>1. E \subseteq Prunable /\ Prunable \subseteq entries /\ IsFiniteSet(entries)
  BY PrunedIsPrunable DEF IInv
<1>2. entries \ entries' = E /\ totalSize' = totalSize - SizeOf(E)
  BY <1>1 DEF PruneBySize, Remove
<1>3. Prunable' = Prunable \ E
  BY <1>1 DEF PruneBySize, Remove, Prunable, IsLatest
<1>4. \A e \in Prunable : e \in E <=> totalSize - SizeOf(Visited(e)) > MaxSize
  BY DEF Excess
<1>5. \A e \in E, f \in Prunable : Before(order, f, e) => f \in E
  BY ExcessIsBeginning
<1>6. totalSize \in Int /\ MaxSize \in Nat
  BY BoundsAssumption DEF IInv, TypeOK
<1>7. \A x \in Prunable : IsFiniteSet(Visited(x)) /\ SizeOf(Visited(x)) \in Nat
  <2> SUFFICES ASSUME NEW x \in Prunable
               PROVE  IsFiniteSet(Visited(x)) /\ SizeOf(Visited(x)) \in Nat
    OBVIOUS
  <2>1. IsFiniteSet(Visited(x))
    BY <1>1, FS_Subset
  <2> QED
    BY <2>1, BytesFinite
<1> HIDE DEF E
<1>8. totalSize' <= MaxSize \/ Prunable' = {}
  <2> SUFFICES ASSUME Prunable \ E # {} PROVE totalSize' <= MaxSize
    BY <1>3
  <2>1. PICK f \in Prunable \ E : \A g \in Prunable \ E : g = f \/ Before(order, f, g)
    BY <1>1, FirstVisited
  <2>2. Visited(f) = E
    <3>1. ASSUME NEW g \in Visited(f) PROVE g \in E
      BY <1>1, <2>1, <3>1, WalkIsLinear
    <3>2. ASSUME NEW g \in E PROVE g \in Visited(f)
      BY <1>1, <1>5, <2>1, <3>2, WalkIsLinear
    <3> QED
      BY <3>1, <3>2
  <2> QED
    BY <1>2, <1>4, <1>6, <1>7, <2>1, <2>2
<1>9. ASSUME E # {} PROVE \E e \in E : totalSize' + entrySize(e) > MaxSize
  <2>1. PICK e \in E : \A f \in E : f = e \/ Before(order, f, e)
    BY <1>1, <1>9, LastVisited
  <2>2. E = Visited(e) \cup {e} /\ e \notin Visited(e)
    BY <1>1, <1>5, <2>1, WalkIsLinear
  <2>3. SizeOf(E) = SizeOf(Visited(e)) + entrySize(e) /\ entrySize(e) \in Nat
    <3>1. e \in Entry /\ IsFiniteSet(Visited(e))
      BY <1>1, <1>7 DEF IInv, TypeOK
    <3>2. SizeOf(Visited(e) \cup {e}) = SizeOf(Visited(e)) + entrySize(e)
      BY <2>2, <3>1, SizeOfAdd
    <3> QED
      BY <2>2, <3>1, <3>2, SizeOfOne
  <2>4. totalSize - SizeOf(Visited(e)) > MaxSize /\ SizeOf(Visited(e)) \in Nat
    BY <1>1, <1>4, <1>7
  <2>5. totalSize' + entrySize(e) = totalSize - SizeOf(Visited(e))
    BY <1>2, <1>6, <2>3, <2>4
  <2> QED
    BY <2>4, <2>5
<1>10. ASSUME NEW e \in E, NEW f \in Prunable \ E, e.instance = f.instance
       PROVE  e.uuid < f.uuid
  <2>1. e # f /\ ~Before(order, f, e) /\ e \in entries /\ f \in entries
    BY <1>1, <1>5
  <2>2. e.uuid # f.uuid /\ e.uuid \in Nat /\ f.uuid \in Nat
    BY <2>1 DEF IInv, UUIDsFresh, TypeOK, Entry
  <2> QED
    BY <1>10, <2>1, <2>2 DEF Before
<1> QED
  BY <1>2, <1>3, <1>8, <1>9, <1>10

\* Size pruning frees enough or all it may, takes nothing it need not, and
\* takes the oldest revisions of an instance first, for every order in which
\* the map may be iterated.
THEOREM ShrinkIsExact == Spec => ShrinkExact
<1> DEFINE Exact ==
             gcPC = "shrink" /\ gcPC' = "recheck" =>
               LET removed == entries \ entries' IN
               /\ totalSize' <= MaxSize \/ Prunable' = {}
               /\ removed # {} => \E e \in removed : totalSize' + entrySize(e) > MaxSize
               /\ \A e \in removed, f \in Prunable' :
                    e.instance = f.instance => e.uuid < f.uuid
<1>1. IInv /\ [Next]_vars => [Exact]_vars
  <2> SUFFICES ASSUME IInv, Next, gcPC = "shrink", gcPC' = "recheck"
               PROVE  Exact
    OBVIOUS
  <2>1. PICK order \in Orders : PruneBySize(order)
    BY DEF Next, Put, Tick, GCStep, Prune, GCMeasure, GCRecheck, GCStop, Shrink, gcVars
  <2> QED
    BY <2>1, ShrinkStep
<1> QED
  BY <1>1, CacheInvariant, PTL DEF Spec, ShrinkExact

-----------------------------------------------------------------------------
(* The cache implements RulesStore.                                        *)

\* What a lookup returns, in the vocabulary of RulesStore.
Served == [i \in Instances |->
             IF Found(i)
             THEN [uuid |-> Get(i).uuid, rules |-> Get(i).rules]
             ELSE NoEntry]

\* Get has no choice: the marked revision is unique.
LEMMA GetIsMarked ==
  ASSUME UUIDsFresh, NEW e \in entries, e.uuid = latest[e.instance]
  PROVE  Found(e.instance) /\ Get(e.instance) = e
<1> DEFINE i == e.instance
<1>1. Found(i)
  BY DEF Found
<1>2. \A f \in entries : f.instance = i /\ f.uuid = latest[i] <=> f = e
  BY DEF UUIDsFresh
<1>3. (CHOOSE f \in entries : f.instance = i /\ f.uuid = latest[i]) = e
  BY <1>2
<1> QED
  BY <1>1, <1>3 DEF Get

\* A step that keeps every marked revision and every mark is invisible to
\* readers.
LEMMA KeptIsServed ==
  ASSUME IInv, IInv', latest' = latest, entries' \subseteq entries,
         Prunable \cup entries' = entries
  PROVE  Served' = Served
<1> SUFFICES ASSUME NEW i \in Instances
             PROVE  /\ Found(i)' <=> Found(i)
                    /\ Found(i) => Get(i)' = Get(i)
  BY DEF Served
<1>1. CASE Found(i)
  <2>1. PICK e \in entries : e.instance = i /\ e.uuid = latest[i]
    BY <1>1 DEF Found
  <2>2. e \in entries'
    BY <2>1 DEF Prunable, IsLatest
  <2>3. Get(i) = e
    BY <2>1, GetIsMarked DEF IInv
  <2>4. Found(i)' /\ \A f \in entries' : f.instance = i /\ f.uuid = latest'[i] <=> f = e
    BY <2>1, <2>2 DEF Found, IInv, UUIDsFresh
  <2>5. (CHOOSE f \in entries' : f.instance = i /\ f.uuid = latest'[i]) = e
    BY <2>4, <2>2
  <2>6. Get(i)' = e
    BY <2>4, <2>5 DEF Get
  <2> QED
    BY <1>1, <2>3, <2>4, <2>6
<1>2. CASE ~Found(i)
  BY <1>2 DEF Found
<1> QED
  BY <1>1, <1>2

\* Put is a publication: readers of its instance see the new revision, the
\* readers of every other instance what they saw before.
LEMMA PutPublishes ==
  ASSUME IInv, IInv', NEW i \in Instances, NEW p \in Payloads, Put(i, p)
  PROVE  Served' = [Served EXCEPT ![i] = [uuid |-> lastUUID + 1, rules |-> p]]
<1> DEFINE e == NewEntry(i, p)
<1>1. /\ e.uuid = lastUUID + 1 /\ e.instance = i /\ e.rules = p
      /\ entries' = entries \cup {e}
      /\ latest' = [latest EXCEPT ![i] = lastUUID + 1]
  BY DEF Put, NewEntry
<1>2. latest \in [Instances -> 0..MaxRevisions] /\ lastUUID \in Nat
  BY BoundsAssumption DEF IInv, TypeOK
<1>3. /\ \A f \in entries' : f.uuid = e.uuid => f = e
      /\ \A f, g \in entries' : f.uuid = g.uuid => f = g
  BY <1>1 DEF IInv, UUIDsFresh
<1>4. Found(i)' /\ Get(i)' = e
  <2>1. \A f \in entries' : f.instance = i /\ f.uuid = latest'[i] <=> f = e
    BY <1>1, <1>2, <1>3
  <2>2. (CHOOSE f \in entries' : f.instance = i /\ f.uuid = latest'[i]) = e
    BY <2>1, <1>1
  <2>3. Found(i)'
    BY <2>1, <1>1 DEF Found
  <2> QED
    BY <2>2, <2>3 DEF Get
<1>5. ASSUME NEW j \in Instances, j # i
      PROVE  /\ Found(j)' <=> Found(j)
             /\ Found(j) => Get(j)' = Get(j)
  <2>1. latest'[j] = latest[j]
    BY <1>1, <1>2, <1>5
  <2>2. \A f : (f \in entries' /\ f.instance = j) <=> (f \in entries /\ f.instance = j)
    BY <1>1, <1>5
  <2>3. Found(j)' <=> Found(j)
    BY <2>1, <2>2 DEF Found
  <2>4. ASSUME Found(j) PROVE Get(j)' = Get(j)
    <3>1. PICK f \in entries : f.instance = j /\ f.uuid = latest[j]
      BY <2>4 DEF Found
    <3>2. Get(j) = f
      BY <3>1, GetIsMarked DEF IInv
    <3>3. \A g \in entries' : g.instance = j /\ g.uuid = latest'[j] <=> g = f
      BY <3>1, <2>1, <2>2, <1>3
    <3>4. (CHOOSE g \in entries' : g.instance = j /\ g.uuid = latest'[j]) = f
      BY <3>3, <3>1, <2>2
    <3> QED
      BY <3>2, <3>4, <2>3, <2>4 DEF Get
  <2> QED
    BY <2>3, <2>4
<1>6. Served'[i] = [uuid |-> lastUUID + 1, rules |-> p]
  BY <1>1, <1>4 DEF Served
<1>7. \A j \in Instances : j # i => Served'[j] = Served[j]
  BY <1>5 DEF Served
<1>8. Served = [j \in Instances |-> Served[j]] /\ Served' = [j \in Instances |-> Served'[j]]
  BY DEF Served
<1> HIDE DEF e
<1> QED
  BY <1>6, <1>7, <1>8

\* Every behaviour of the cache with its collector is, for its readers, a
\* behaviour of RulesStore: what Get returns changes by publication only.
THEOREM CacheImplementsStore == Spec => ImplementsStore
<1>1. Init => Store!Init
  <2> SUFFICES ASSUME Init PROVE Store!Init
    OBVIOUS
  <2>1. \A i \in Instances : ~Found(i)
    BY DEF Init, Found
  <2>2. Served = [i \in Instances |-> NoEntry] /\ lastUUID = 0
    BY <2>1 DEF Served, Init
  <2> QED
    BY <2>2 DEF Store!Init, Served
<1>2. ASSUME IInv, IInv', [Next]_vars
      PROVE  [Store!Next]_<<Served, lastUUID>>
  <2>1. ASSUME NEW i \in Instances, NEW p \in Payloads, Put(i, p)
        PROVE  Store!Next
    <3>1. Served' = [Served EXCEPT ![i] = [uuid |-> lastUUID + 1, rules |-> p]]
      BY <1>2, <2>1, PutPublishes
    <3>2. Store!Publish(i, p)
      BY <3>1, <2>1 DEF Store!Publish, Put, Served
    <3> QED
      BY <3>2 DEF Store!Next
  <2>2. ASSUME NEW removed \in SUBSET Prunable, Remove(removed)
        PROVE  UNCHANGED <<Served, lastUUID>>
    <3>1. /\ latest' = latest
          /\ entries' \subseteq entries
          /\ Prunable \cup entries' = entries
      BY <2>2, PrunedIsPrunable DEF Remove
    <3> QED
      BY <3>1, <1>2, <2>2, KeptIsServed DEF Remove
  <2>3. CASE Prune
    BY <2>3, <2>2, PrunedIsPrunable DEF Prune
  <2>4. ASSUME NEW order \in Orders, PruneBySize(order)
        PROVE  UNCHANGED <<Served, lastUUID>>
    BY <2>4, <2>2, PrunedIsPrunable DEF PruneBySize
  <2>5. CASE UNCHANGED cacheVars
    <3>1. entries' = entries /\ latest' = latest /\ lastUUID' = lastUUID
      BY <2>5 DEF cacheVars
    <3>2. Prunable \cup entries' = entries
      BY <3>1, PrunedIsPrunable
    <3> QED
      BY <3>1, <3>2, <1>2, KeptIsServed
  <2>6. CASE Tick \/ GCMeasure \/ GCRecheck \/ GCStop \/ UNCHANGED vars
    BY <2>6, <2>5 DEF Tick, GCMeasure, GCRecheck, GCStop, vars, cacheVars
  <2> QED
    BY <1>2, <2>1, <2>3, <2>4, <2>6 DEF Next, GCStep, Shrink
<1>3. IInv /\ IInv' /\ [Next]_vars => [Store!Next]_<<Served, lastUUID>>
  BY <1>2
<1> QED
  BY <1>1, <1>3, CacheInvariant, PTL DEF Spec, ImplementsStore, Store!Spec, Served
=============================================================================
