---------------------------- MODULE RuleSetCache ----------------------------
(***************************************************************************)
(* The versioned in-memory cache of compiled rule sets                     *)
(* (internal/rulesets/cache/cache.go) and the garbage collection loop of   *)
(* the cache server that trims it (rungc in server.go).                    *)
(*                                                                         *)
(* Every method of RuleSetCache is one critical section of its mutex, so   *)
(* every method is one action; the loop calls four of them in a row, and   *)
(* the reconcilers' Puts fall between any two of those calls.              *)
(*                                                                         *)
(* The map of slices is one set of entries, each tagged with its instance. *)
(* Revisions are numbered in the order of the Puts, which is the order of  *)
(* the slices (append only, filtered in place), so a slice is recovered by *)
(* sorting the entries of an instance by uuid.                             *)
(***************************************************************************)
EXTENDS Integers, FiniteSets

CONSTANTS
    Instances,       \* cache keys that may be put
    Payloads,        \* rules and data files of a revision
    PayloadSize,     \* bytes of a payload: rules, file names, file contents
    MaxPayloadSize,  \* no payload is larger
    NoEntry,         \* the (nil, false) of Get
    MaxAge,          \* GarbageCollectionConfig.MaxAge
    MaxSize,         \* GarbageCollectionConfig.MaxSize
    MaxRevisions,    \* bound on the number of Puts
    MaxTime          \* bound on the clock

ASSUME SizeAssumption ==
    /\ MaxPayloadSize \in Nat
    /\ PayloadSize \in [Payloads -> 0..MaxPayloadSize]

ASSUME BoundsAssumption ==
    /\ IsFiniteSet(Instances)
    /\ MaxAge \in Nat
    /\ MaxSize \in Nat
    /\ MaxRevisions \in Nat
    /\ MaxTime \in Nat

VARIABLES
    entries,         \* every stored revision of every instance
    latest,          \* instance -> uuid marked Latest, 0 while never put
    totalSize,       \* running byte count
    totalEntries,    \* running entry count
    lastUUID,        \* uuids handed out so far
    now,             \* the clock
    gcPC,            \* where the garbage collection loop is
    gcPruned,        \* result of the prune call, not yet added to a metric
    prunedTotal,     \* gc_pruned_entries_total, by reason
    alarm            \* the current cycle raised gc_size_limit_exceeded

cacheVars == <<entries, latest, totalSize, totalEntries, lastUUID>>
gcVars == <<gcPC, gcPruned, prunedTotal, alarm>>
vars == <<entries, latest, totalSize, totalEntries, lastUUID, now,
          gcPC, gcPruned, prunedTotal, alarm>>

Entry == [instance : Instances, uuid : Nat, timestamp : Nat, rules : Payloads]

GCStates == {"idle", "measure", "shrink", "recheck", "stopped"}

-----------------------------------------------------------------------------
(* Sizes.  The bytes of a set of entries are a set, so that adding them up *)
(* is taking a cardinality.                                                *)

entrySize(e) == PayloadSize[e.rules]

Bytes(S) == {b \in S \X (1..MaxPayloadSize) : b[2] <= entrySize(b[1])}

SizeOf(S) == Cardinality(Bytes(S))

-----------------------------------------------------------------------------
(* Lookups.                                                                *)

IsLatest(e) == e.uuid = latest[e.instance]

Prunable == {e \in entries : ~IsLatest(e)}

Found(i) == \E e \in entries : e.instance = i /\ e.uuid = latest[i]

Get(i) ==
    IF Found(i)
    THEN CHOOSE e \in entries : e.instance = i /\ e.uuid = latest[i]
    ELSE NoEntry

-----------------------------------------------------------------------------
Init ==
    /\ entries = {}
    /\ latest = [i \in Instances |-> 0]
    /\ totalSize = 0
    /\ totalEntries = 0
    /\ lastUUID = 0
    /\ now = 0
    /\ gcPC = "idle"
    /\ gcPruned = 0
    /\ prunedTotal = [age |-> 0, size |-> 0]
    /\ alarm = FALSE

NewEntry(i, p) ==
    [instance |-> i, uuid |-> lastUUID + 1, timestamp |-> now, rules |-> p]

\* Mutant of Put: the Latest mark is left where it was once the instance
\* exists.
PutKeepsMark(i, p) ==
    /\ lastUUID < MaxRevisions
    /\ lastUUID' = lastUUID + 1
    /\ entries' = entries \cup {NewEntry(i, p)}
    /\ latest' = [latest EXCEPT ![i] = IF @ = 0 THEN lastUUID + 1 ELSE @]
    /\ totalSize' = totalSize + entrySize(NewEntry(i, p))
    /\ totalEntries' = totalEntries + 1
    /\ UNCHANGED <<now, gcVars>>

\* A reconciler stores a revision: append, move the Latest mark, count.
Put(i, p) ==
    /\ lastUUID < MaxRevisions
    /\ lastUUID' = lastUUID + 1
    /\ entries' = entries \cup {NewEntry(i, p)}
    /\ latest' = [latest EXCEPT ![i] = lastUUID + 1]
    /\ totalSize' = totalSize + entrySize(NewEntry(i, p))
    /\ totalEntries' = totalEntries + 1
    /\ UNCHANGED <<now, gcVars>>

Tick ==
    /\ now < MaxTime
    /\ now' = now + 1
    /\ UNCHANGED <<cacheVars, gcVars>>

-----------------------------------------------------------------------------
(* The garbage collection loop.                                            *)

\* Mutant of the age test: the difference is taken the wrong way round.
TooOldNever == {e \in Prunable : e.timestamp - now > MaxAge}

TooOld == {e \in Prunable : now - e.timestamp > MaxAge}

\* Mutant of Remove: the byte count is left to drift.
RemoveWithoutSize(removed) ==
    /\ entries' = entries \ removed
    /\ totalSize' = totalSize
    /\ totalEntries' = totalEntries - Cardinality(removed)
    /\ gcPruned' = Cardinality(removed)
    /\ UNCHANGED <<latest, lastUUID, now, prunedTotal>>

\* What both prune methods do once they know what goes.
Remove(removed) ==
    /\ entries' = entries \ removed
    /\ totalSize' = totalSize - SizeOf(removed)
    /\ totalEntries' = totalEntries - Cardinality(removed)
    /\ gcPruned' = Cardinality(removed)
    /\ UNCHANGED <<latest, lastUUID, now, prunedTotal>>

\* The ticker fires and the loop prunes by age.
Prune ==
    /\ gcPC = "idle"
    /\ Remove(TooOld)
    /\ gcPC' = "measure"
    /\ alarm' = FALSE

\* Mutants of GCMeasure: the age metric is not advanced; it is a gauge that
\* goes down; the limit is compared with the number of entries.
GCMeasureSilent ==
    /\ gcPC = "measure"
    /\ prunedTotal' = prunedTotal
    /\ gcPruned' = 0
    /\ gcPC' = IF totalSize > MaxSize THEN "shrink" ELSE "idle"
    /\ UNCHANGED <<cacheVars, now, alarm>>

GCMeasureGauge ==
    /\ gcPC = "measure"
    /\ prunedTotal' = [prunedTotal EXCEPT !.age = @ - gcPruned]
    /\ gcPruned' = 0
    /\ gcPC' = IF totalSize > MaxSize THEN "shrink" ELSE "idle"
    /\ UNCHANGED <<cacheVars, now, alarm>>

GCMeasureEntries ==
    /\ gcPC = "measure"
    /\ prunedTotal' = [prunedTotal EXCEPT !.age = @ + gcPruned]
    /\ gcPruned' = 0
    /\ gcPC' = IF totalEntries > MaxSize THEN "shrink" ELSE "idle"
    /\ UNCHANGED <<cacheVars, now, alarm>>

\* Account for the age pruning, read TotalSize, decide on size pruning.
GCMeasure ==
    /\ gcPC = "measure"
    /\ prunedTotal' = [prunedTotal EXCEPT !.age = @ + gcPruned]
    /\ gcPruned' = 0
    /\ gcPC' = IF totalSize > MaxSize THEN "shrink" ELSE "idle"
    /\ UNCHANGED <<cacheVars, now, alarm>>

\* The order in which PruneBySize happens to iterate over the map.
Orders ==
    {r \in [Instances -> 1..Cardinality(Instances)] :
        \A i, j \in Instances : r[i] = r[j] => i = j}

\* e is visited before f: by instance, then from oldest to newest.
Before(order, e, f) ==
    \/ order[e.instance] < order[f.instance]
    \/ e.instance = f.instance /\ e.uuid < f.uuid

\* Mutants of Excess: the Latest mark does not protect; entries go while
\* the size is at or over the limit.
ExcessIgnoringMark(order) ==
    {e \in entries :
        totalSize - SizeOf({f \in entries : Before(order, f, e)}) > MaxSize}

ExcessGreedy(order) ==
    {e \in Prunable :
        totalSize - SizeOf({f \in Prunable : Before(order, f, e)}) >= MaxSize}

\* An entry goes when what was visited before it did not free enough.
Excess(order) ==
    {e \in Prunable :
        totalSize - SizeOf({f \in Prunable : Before(order, f, e)}) > MaxSize}

PruneBySize(order) ==
    /\ gcPC = "shrink"
    /\ Remove(Excess(order))
    /\ gcPC' = "recheck"
    /\ UNCHANGED alarm

\* Account for the size pruning, read TotalSize again, raise the alarm.
GCRecheck ==
    /\ gcPC = "recheck"
    /\ prunedTotal' = [prunedTotal EXCEPT !.size = @ + gcPruned]
    /\ gcPruned' = 0
    /\ alarm' = (totalSize > MaxSize)
    /\ gcPC' = "idle"
    /\ UNCHANGED <<cacheVars, now>>

\* The context is cancelled; the loop only looks between two cycles.
GCStop ==
    /\ gcPC = "idle"
    /\ gcPC' = "stopped"
    /\ UNCHANGED <<cacheVars, now, gcPruned, prunedTotal, alarm>>

-----------------------------------------------------------------------------
Shrink == \E order \in Orders : PruneBySize(order)

GCStep == Prune \/ GCMeasure \/ Shrink \/ GCRecheck

Next ==
    \/ \E i \in Instances, p \in Payloads : Put(i, p)
    \/ Tick
    \/ GCStep
    \/ GCStop

Spec == Init /\ [][Next]_vars

\* The loop is a goroutine driven by a ticker that never stops firing, and
\* no call in it blocks for good: its steps are weakly fair.  Puts, the end
\* of the process and the passing of time are not.
FairSpec == Spec /\ WF_vars(GCStep)

-----------------------------------------------------------------------------
(* Properties.                                                             *)

TypeOK ==
    /\ entries \subseteq Entry
    /\ latest \in [Instances -> 0..MaxRevisions]
    /\ totalSize \in Int
    /\ totalEntries \in Int
    /\ lastUUID \in 0..MaxRevisions
    /\ now \in 0..MaxTime
    /\ gcPC \in GCStates
    /\ gcPruned \in Nat
    /\ prunedTotal \in [age : Nat, size : Nat]
    /\ alarm \in BOOLEAN

\* Whatever the collector did and however it interleaved with Puts, an
\* instance that was ever put is found by Get, and what Get returns is the
\* newest revision stored for it (cache.go, Get against Prune, PruneBySize).
LatestRetained ==
    \A i \in Instances : latest[i] # 0 =>
        /\ Found(i)
        /\ \A e \in entries : e.instance = i => e.uuid <= latest[i]

\* The counters that Put, Prune and PruneBySize keep incrementally, on which
\* the size limit is decided, equal what is stored (cache.go, entrySize's
\* comment on incremental accounting).
AccountingExact ==
    /\ totalSize = SizeOf(entries)
    /\ totalEntries = Cardinality(entries)

\* Every revision ever put is stored, or counted by exactly one of the two
\* pruning metrics, or held in the loop's local result between the prune
\* call and the metric (server.go, rungc).
RevisionsConserved ==
    lastUUID = totalEntries + gcPruned + prunedTotal.age + prunedTotal.size

\* Size pruning does what it can and no more, whichever way it walks the map:
\* when PruneBySize returns the cache fits, or only revisions marked Latest
\* are left; without some revision it took the cache would still be over the
\* limit; and no older revision of an instance survives a younger.
ShrinkExact ==
    [][gcPC = "shrink" /\ gcPC' = "recheck" =>
         LET removed == entries \ entries' IN
         /\ totalSize' <= MaxSize \/ Prunable' = {}
         /\ removed # {} =>
              \E e \in removed : totalSize' + entrySize(e) > MaxSize
         /\ \A e \in removed, f \in Prunable' :
              e.instance = f.instance => e.uuid < f.uuid]_vars

\* Readers see a store of latest revisions: every step of the cache is a
\* publication or invisible to them; the collector never changes, hides or
\* brings back what Get returns.
Store == INSTANCE RulesStore WITH
    served <- [i \in Instances |->
                 IF Found(i)
                 THEN [uuid |-> Get(i).uuid, rules |-> Get(i).rules]
                 ELSE NoEntry],
    revision <- lastUUID

ImplementsStore == Store!Spec

Stored(u) == \E e \in entries : e.uuid = u

Stale(u) == \E e \in Prunable : e.uuid = u /\ now - e.timestamp > MaxAge

\* A superseded revision past its age is eventually collected, as long as
\* the server runs.
StaleCollected ==
    \A u \in 1..MaxRevisions : Stale(u) ~> (~Stored(u) \/ gcPC = "stopped")

\* A cache over its limit eventually fits, or holds only Latest revisions.
OversizeResolved ==
    totalSize > MaxSize ~>
        (totalSize <= MaxSize \/ Prunable = {} \/ gcPC = "stopped")
=============================================================================
