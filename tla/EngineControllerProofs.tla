----------------------- MODULE EngineControllerProofs -----------------------
(***************************************************************************)
(* Proofs about EngineController: types, the finalizer's protocol, the     *)
(* scope of tokens and the order of policy and plugin, for any specs, any  *)
(* lag of the informers, any token lifetime and any number of edits,       *)
(* faults, restarts and incarnations of the Engine.                        *)
(***************************************************************************)
EXTENDS EngineController, FiniteSetTheorems, SequenceTheorems, TLAPS

-----------------------------------------------------------------------------
(* The inductive invariant, part one: types.                               *)

\* A version of the Engine as the API server stores it.
Stored ==
  {v \in Versions :
     /\ v.exists => v.uid # 0 /\ v.ruleSet \in RuleSetNames /\ v.target \in Targets
     /\ v.exists /\ v.deleting => v.finalizer}

EngineInv ==
  /\ engine \in Stored
  /\ view \in Stored
  /\ log \in Seq(Stored)

Accounts == [id : Nat \ {0}, uid : 1..MaxIncarnations]

ObjectsInv ==
  /\ ruleSet \in [RuleSetNames -> {"absent", "fine", "degraded"}]
  /\ policies \subseteq [id : Nat, target : Targets]
  /\ accounts \subseteq Accounts
  /\ accountView \subseteq Accounts
  /\ IsFiniteSet(policies) /\ IsFiniteSet(accounts) /\ IsFiniteSet(accountView)
  /\ drifts \in Nat

\* Every token in the store is one for the RuleSet it is stored under.
TokensInv ==
  /\ tokenStore \in [RuleSetNames -> TokenType \cup {NoToken}]
  /\ \A r \in RuleSetNames : tokenStore[r] # NoToken => tokenStore[r].ruleSet = r

PluginInv ==
  /\ plugin \in PluginType \cup {NoPlugin}
  /\ TokenScoped

JobType == [pc : Labels, obj : Stored, account : Nat, token : TokenType \cup {NoToken}]

\* What a reconciliation has read decides where it can be.
JobInv ==
  /\ job \in JobType
  /\ job.pc = "orphans" => ~job.obj.exists
  /\ job.pc \in {"cleanup", "unfinalize"} =>
       job.obj.exists /\ job.obj.deleting /\ job.obj.finalizer
  /\ job.pc = "finalize" => job.obj.exists /\ ~job.obj.deleting /\ ~job.obj.finalizer
  /\ job.pc = "init" => job.obj.exists /\ ~job.obj.deleting /\ job.obj.finalizer
  /\ job.pc \in Provisioning \cup {"ruleSet"} => job.obj.exists
  /\ job.pc \in {"token", "plugin", "ready"} => job.account # 0
  /\ job.pc \in {"plugin", "ready"} =>
       /\ job.token \in TokenType
       /\ job.token.age < RenewAt
       /\ job.token.ruleSet = job.obj.ruleSet

WakeInv == wake \in 0..RenewAt \cup {Never}

TInv == EngineInv /\ ObjectsInv /\ TokensInv /\ PluginInv /\ JobInv /\ WakeInv

\* The parts add up to the type invariant.
LEMMA TInvTypes == TInv => TypeOK
BY DEF TInv, EngineInv, ObjectsInv, TokensInv, PluginInv, JobInv, WakeInv, TypeOK,
       Stored, Accounts, PluginType, JobType

-----------------------------------------------------------------------------
(* The versions of the Engine.                                             *)

\* The bounds are numbers.
LEMMA BoundsAreNumbers == MaxIncarnations \in Nat /\ MaxDrifts \in Nat
BY EngineAssumption

\* A user's spec names a RuleSet and a target.
LEMMA SpecType ==
  ASSUME NEW spec \in Specs
  PROVE  spec.ruleSet \in RuleSetNames /\ spec.target \in Targets
BY DEF RuleSetNames, Targets

\* What is known of the fields of a version.
LEMMA StoredType ==
  ASSUME NEW v \in Stored
  PROVE  /\ v \in Versions
         /\ v.uid \in 0..MaxIncarnations /\ v.uid \in Nat
         /\ v.gen \in Nat /\ v.gen + 1 \in Nat
         /\ v.exists \in BOOLEAN /\ v.deleting \in BOOLEAN /\ v.finalizer \in BOOLEAN
<1>1. v \in Versions
  BY DEF Stored
<1>2. v.uid \in 0..MaxIncarnations /\ v.gen \in Nat
  BY <1>1 DEF Versions
<1>3. v.exists \in BOOLEAN /\ v.deleting \in BOOLEAN /\ v.finalizer \in BOOLEAN
  BY <1>1 DEF Versions
<1> QED
  BY <1>1, <1>2, <1>3, BoundsAreNumbers

\* The Engine that is not there is a version.
LEMMA MissingStored == Missing \in Stored /\ ~Missing.exists
<1>1. Missing \in Versions
  BY BoundsAreNumbers DEF Missing, Versions, NewStatus, Status, Conditions, Reasons
<1> QED
  BY <1>1 DEF Missing, Stored

\* So is the one that has gone, with the uid it had.
LEMMA GoneStored ==
  ASSUME engine \in Stored
  PROVE  Gone \in Stored /\ ~Gone.exists /\ Gone.uid = engine.uid
BY MissingStored DEF Gone, Missing, Stored, Versions, NewStatus, Status

\* And one that has just been created.
LEMMA CreatedStored ==
  ASSUME engine \in Stored, engine.uid < MaxIncarnations, NEW spec \in Specs
  PROVE  /\ Created(spec) \in Stored
         /\ Created(spec).exists /\ ~Created(spec).finalizer
         /\ Created(spec).uid = engine.uid + 1
<1>1. engine.uid \in Nat /\ engine.gen + 1 \in Nat /\ engine.uid + 1 \in 1..MaxIncarnations
  BY StoredType, BoundsAreNumbers
<1> DEFINE u == engine.uid + 1
           g == engine.gen + 1
           v == Created(spec)
<1>2. u \in 0..MaxIncarnations /\ u # 0 /\ g \in Nat
  BY <1>1
<1>3. v = [exists |-> TRUE, uid |-> u, gen |-> g, ruleSet |-> spec.ruleSet,
           target |-> spec.target, deleting |-> FALSE, finalizer |-> FALSE,
           status |-> NewStatus]
  BY DEF Created
<1> HIDE DEF u, g, v
<1>4. v \in Versions
  BY <1>2, <1>3, SpecType DEF Versions, NewStatus, Status, Conditions, Reasons
<1>5. v.exists /\ ~v.finalizer /\ v.uid = u /\ ~v.deleting
      /\ v.ruleSet = spec.ruleSet /\ v.target = spec.target
  BY <1>3
<1>6. v \in Stored
  BY <1>2, <1>4, <1>5, SpecType DEF Stored
<1> QED
  BY <1>5, <1>6 DEF v, u

\* A change of a stored Engine that keeps what must not change.
Follows(v) ==
  /\ v \in Stored
  /\ v.exists /\ v.uid = engine.uid /\ v.finalizer = engine.finalizer
  /\ engine.deleting => v.deleting
  /\ engine.gen <= v.gen
  /\ v.gen = engine.gen =>
       /\ v.deleting = engine.deleting
       /\ v.ruleSet = engine.ruleSet /\ v.target = engine.target

\* A deletion that waits for the finalizer.
LEMMA DeletingFollows ==
  ASSUME engine \in Stored, engine.exists, engine.finalizer
  PROVE  Follows([engine EXCEPT !.deleting = TRUE, !.gen = @ + 1])
<1> DEFINE g == engine.gen + 1
           v == [engine EXCEPT !.deleting = TRUE, !.gen = g]
<1>1. [engine EXCEPT !.deleting = TRUE, !.gen = @ + 1] = v
  BY StoredType DEF Versions
<1>2. engine \in Versions /\ g \in Nat /\ engine.gen <= g /\ g # engine.gen
  BY StoredType
<1> HIDE DEF g
<1>3. v \in Versions
  BY <1>2 DEF Versions
<1>4. Follows(v)
  BY <1>2, <1>3 DEF Follows, Stored, Versions
<1> QED
  BY <1>1, <1>4

\* A new spec.
LEMMA ChangeFollows ==
  ASSUME engine \in Stored, engine.exists, NEW spec \in Specs
  PROVE  Follows([engine EXCEPT !.ruleSet = spec.ruleSet, !.target = spec.target,
                                !.gen = @ + 1])
<1> DEFINE g == engine.gen + 1
           v == [engine EXCEPT !.ruleSet = spec.ruleSet, !.target = spec.target, !.gen = g]
<1>1. [engine EXCEPT !.ruleSet = spec.ruleSet, !.target = spec.target, !.gen = @ + 1] = v
  BY StoredType DEF Versions
<1>2. engine \in Versions /\ g \in Nat /\ engine.gen <= g /\ g # engine.gen
  BY StoredType
<1> HIDE DEF g
<1>3. v \in Versions
  BY <1>2, SpecType DEF Versions
<1>4. Follows(v)
  BY <1>2, <1>3, SpecType DEF Follows, Stored, Versions
<1> QED
  BY <1>1, <1>4

\* A new status.
LEMMA StatusFollows ==
  ASSUME engine \in Stored, engine.exists,
         NEW cond \in Conditions, NEW reason \in Reasons, NEW gen \in Nat
  PROVE  Follows([engine EXCEPT !.status = Status(cond, reason, gen)])
<1> DEFINE v == [engine EXCEPT !.status = Status(cond, reason, gen)]
<1>1. engine \in Versions /\ engine.gen <= engine.gen
  BY StoredType
<1>2. v \in Versions
  BY <1>1 DEF Versions, Status
<1>3. /\ v.exists = engine.exists /\ v.uid = engine.uid /\ v.gen = engine.gen
      /\ v.ruleSet = engine.ruleSet /\ v.target = engine.target
      /\ v.deleting = engine.deleting /\ v.finalizer = engine.finalizer
  BY <1>1 DEF Versions
<1> HIDE DEF v
<1>4. Follows(v)
  BY <1>1, <1>2, <1>3 DEF Follows, Stored
<1> QED
  BY <1>4 DEF v

\* The finalizer is set or taken off.
LEMMA FinalizerStored ==
  ASSUME engine \in Stored, engine.exists
  PROVE  /\ [engine EXCEPT !.finalizer = TRUE] \in Stored
         /\ ~engine.deleting => [engine EXCEPT !.finalizer = FALSE] \in Stored
BY DEF Stored, Versions

-----------------------------------------------------------------------------
(* What steps do to the Engine and to the reconciliation.  Most steps are  *)
(* quiet: the Engine, if it changes, keeps its identity and its finalizer, *)
(* and the reconciliation goes on with what it has read or ends.           *)

\* Where a reconciliation may still create or change objects.
Working == Provisioning \cup {"init", "ruleSet"}

Releasing == {"cleanup", "unfinalize"}

QuietEngine ==
  /\ view' = view
  /\ \/ UNCHANGED engineVars
     \/ engine.exists /\ Follows(engine') /\ Store(engine')

QuietJob ==
  \/ job'.pc = "idle"
  \/ /\ job.pc # "idle"
     /\ job'.obj = job.obj
     /\ job'.pc \in Releasing => job.pc \in Releasing
     /\ job'.pc \in Working => job.pc \in Working

\* A merge patch of the status is quiet, whatever it sends.
LEMMA PatchQuiet ==
  ASSUME EngineInv, JobInv, view' = view, NEW cond \in Conditions, NEW reason \in Reasons,
         PatchTo(Status(cond, reason, job.obj.gen))
  PROVE  QuietEngine
<1>1. engine.exists /\ engine \in Stored
  BY DEF PatchTo, EngineInv
<1>2. job.obj.gen \in Nat
  BY StoredType DEF JobInv, JobType
<1>3. CASE UNCHANGED engineVars
  BY <1>3 DEF QuietEngine
<1>4. CASE Store([engine EXCEPT !.status = Status(cond, reason, job.obj.gen)])
  BY <1>1, <1>2, <1>4, StatusFollows DEF QuietEngine, Store
<1> QED
  BY <1>3, <1>4 DEF PatchTo

\* So is the end of a reconciliation that degrades the Engine.
LEMMA DegradeQuiet ==
  ASSUME EngineInv, JobInv, view' = view, NEW reason \in Reasons, NEW retriable \in BOOLEAN,
         Degrade(reason, retriable)
  PROVE  QuietEngine /\ job' = Idle /\ wake' \in {wake, 0}
<1>1. CASE PatchTo(Status("Degraded", reason, job.obj.gen)) /\
           (IF retriable THEN Failed ELSE Done)
  BY <1>1, PatchQuiet DEF Conditions, Failed, Done
<1>2. CASE CallFails /\ Failed
  BY <1>2 DEF CallFails, Failed, QuietEngine
<1> QED
  BY <1>1, <1>2 DEF Degrade

\* And a failing step of provisioning.
LEMMA StepFailsQuiet ==
  ASSUME EngineInv, JobInv, view' = view, NEW label, NEW reason \in Reasons,
         StepFails(label, reason)
  PROVE  QuietEngine /\ job' = Idle /\ wake' = 0
<1>1. CASE PatchTo(Status("Degraded", reason, job.obj.gen))
  BY <1>1, PatchQuiet DEF StepFails, Failed, Conditions
<1>2. CASE UNCHANGED engineVars
  BY <1>2 DEF StepFails, Failed, QuietEngine
<1> QED
  BY <1>1, <1>2 DEF StepFails

\* And the first status.
LEMMA InitializeQuiet ==
  ASSUME EngineInv, JobInv, InitializeStatus
  PROVE  QuietEngine
<1>1. view' = view
  BY DEF InitializeStatus, viewVars
<1>2. CASE PatchTo(Status("Progressing", "Reconciling", job.obj.gen))
  BY <1>1, <1>2, PatchQuiet DEF Conditions, Reasons
<1>3. CASE CallFails
  BY <1>1, <1>3 DEF CallFails, QuietEngine
<1> QED
  BY <1>2, <1>3 DEF InitializeStatus

-----------------------------------------------------------------------------
(* Types of the objects.                                                   *)

\* There is a name that is not taken.
LEMMA FreshIdType ==
  ASSUME NEW S, IsFiniteSet(S)
  PROVE  FreshId(S) \in Nat \ {0} /\ FreshId(S) \notin S
<1> DEFINE n == Cardinality(S)
<1>1. n \in Nat
  BY FS_CardinalityType
<1>2. IsFiniteSet(1..(n + 1)) /\ Cardinality(1..(n + 1)) = n + 1
  <2> HIDE DEF n
  <2>1. 1 \in Int /\ n + 1 \in Int
    BY <1>1
  <2>2. Cardinality(1..(n + 1)) = IF 1 > n + 1 THEN 0 ELSE (n + 1) - 1 + 1
    BY <2>1, FS_Interval
  <2> QED
    BY <1>1, <2>1, <2>2, FS_Interval
<1>3. ~(1..(n + 1) \subseteq S)
  <2> SUFFICES ASSUME 1..(n + 1) \subseteq S PROVE FALSE
    OBVIOUS
  <2>1. Cardinality(1..(n + 1)) <= n
    BY FS_Subset
  <2> QED
    BY <1>1, <1>2, <2>1
<1>4. \E m \in 1..(n + 1) : m \notin S
  BY <1>3
<1>5. FreshId(S) \in 1..(n + 1) /\ FreshId(S) \notin S
  BY <1>4 DEF FreshId
<1> HIDE DEF n
<1> QED
  BY <1>1, <1>5

\* A function has finitely many values on a finite set.
LEMMA ImageFinite ==
  ASSUME NEW S, IsFiniteSet(S), NEW f, f = [x \in S |-> f[x]]
  PROVE  IsFiniteSet({f[x] : x \in S})
<1> DEFINE T == {f[x] : x \in S}
<1>1. f \in [S -> T] /\ \A t \in T : \E x \in S : f[x] = t
  OBVIOUS
<1>2. f \in Surjection(S, T)
  BY <1>1 DEF Surjection
<1> HIDE DEF T
<1>3. IsFiniteSet(T)
  BY <1>2, FS_Surjection
<1> QED
  BY <1>3 DEF T

\* Names of finitely many objects are finitely many.
LEMMA IdsFinite ==
  ASSUME NEW S, IsFiniteSet(S)
  PROVE  IsFiniteSet(Ids(S))
<1> DEFINE f == [x \in S |-> x.id]
<1>1. f = [x \in S |-> f[x]] /\ Ids(S) = {f[x] : x \in S}
  BY DEF Ids
<1> HIDE DEF f
<1> QED
  BY <1>1, ImageFinite

\* Only finitely many names of accounts are in use.
LEMMA AccountIdsFinite ==
  ASSUME ObjectsInv, TokensInv
  PROVE  IsFiniteSet(AccountIds)
<1>1. IsFiniteSet(Ids(accounts)) /\ IsFiniteSet(Ids(accountView))
  BY IdsFinite DEF ObjectsInv
<1>2. IsFiniteSet(Tokens)
  <2>1. IsFiniteSet(RuleSetNames)
    <3> DEFINE f == [s \in Specs |-> s.ruleSet]
    <3>1. f = [s \in Specs |-> f[s]] /\ RuleSetNames = {f[s] : s \in Specs}
      BY DEF RuleSetNames
    <3> HIDE DEF f
    <3> QED
      BY <3>1, ImageFinite, EngineAssumption
  <2>2. IsFiniteSet({tokenStore[r] : r \in RuleSetNames})
    <3>1. tokenStore = [r \in RuleSetNames |-> tokenStore[r]]
      BY DEF TokensInv
    <3> QED
      BY <2>1, <3>1, ImageFinite
  <2>3. Tokens \subseteq {tokenStore[r] : r \in RuleSetNames}
    BY DEF Tokens
  <2> QED
    BY <2>2, <2>3, FS_Subset
<1>3. IsFiniteSet({t.account : t \in Tokens})
  <2> DEFINE f == [t \in Tokens |-> t.account]
  <2>1. f = [t \in Tokens |-> f[t]] /\ {t.account : t \in Tokens} = {f[t] : t \in Tokens}
    OBVIOUS
  <2> HIDE DEF f
  <2>2. IsFiniteSet({f[t] : t \in Tokens})
    BY <1>2, <2>1, ImageFinite
  <2> QED
    BY <2>1, <2>2
<1>4. IsFiniteSet(IF plugin = NoPlugin THEN {} ELSE {plugin.token.account})
  BY FS_EmptySet, FS_Singleton
<1>5. IsFiniteSet(Ids(accounts) \cup Ids(accountView))
  BY <1>1, FS_Union
<1>6. IsFiniteSet((Ids(accounts) \cup Ids(accountView)) \cup {t.account : t \in Tokens})
  BY <1>3, <1>5, FS_Union
<1> QED
  BY <1>4, <1>6, FS_Union DEF AccountIds

-----------------------------------------------------------------------------
(* The inductive invariant, part two: what the reconciler may know of the  *)
(* Engine, and what became of it since.                                    *)

\* The order of versions: while an incarnation lives, it came to exist
\* before, and neither its deletion nor its finalizer is taken back.
Precedes(a, b) ==
  /\ a.uid <= b.uid
  /\ a.uid = b.uid /\ b.exists =>
       /\ a.exists
       /\ a.deleting => b.deleting
       /\ a.finalizer => b.finalizer

\* The versions a reconciliation that starts now or later may read.
Known == {view} \cup {log[i] : i \in 1..Len(log)}

HistoryOrdered ==
  /\ \A i \in 1..Len(log) : Precedes(view, log[i])
  /\ \A i, j \in 1..Len(log) : i <= j => Precedes(log[i], log[j])
  /\ engine = IF log = <<>> THEN view ELSE log[Len(log)]

Held(v) == v.exists /\ v.finalizer

\* The reconciler, and what it works on, have seen the deletion of v.
Seen(v) ==
  /\ view.exists /\ view.deleting /\ view.uid = v.uid
  /\ job.pc # "idle" => job.obj.exists /\ job.obj.deleting /\ job.obj.uid = v.uid

\* An Engine with the finalizer is still there, or it went in a
\* reconciliation of its deletion.
GoneIsSeen == \A v \in Known : Held(v) => (engine.exists /\ engine.uid = v.uid) \/ Seen(v)

\* Two incarnations that carry the finalizer do not meet.
OneHeld == \A v \in Known : Held(v) /\ Held(engine) => v.uid = engine.uid

\* A cleanup works on the incarnation that carries the finalizer, if one does.
ReleaseInv ==
  job.pc \in Releasing =>
    /\ Held(engine) => engine.uid = job.obj.uid
    /\ \A v \in Known : Precedes(job.obj, v)

HInv == HistoryOrdered /\ GoneIsSeen /\ OneHeld /\ ReleaseInv /\ FinalizerHeld

\* The policy of the Engine that was read is there until somebody takes it.
PolicyInv ==
  job.pc \in {"account", "token", "plugin", "ready"} /\ drifts = 0 =>
    \E p \in policies : p.target = job.obj.target

-----------------------------------------------------------------------------
(* The kinds of steps.                                                     *)

Kinds ==
  \/ \E spec \in Specs : CreateEngine(spec)
  \/ DeleteEngine /\ ~engine.finalizer
  \/ DeliverEngine \/ Start \/ Unfinalize \/ Finalize \/ InitializeStatus \/ Restart
  \/ QuietEngine /\ QuietJob

\* What leaves the Engine and the reconciliation alone is quiet.
LEMMA FrameQuiet ==
  ASSUME UNCHANGED <<engineVars, view, job>>
  PROVE  Kinds
BY DEF engineVars, Kinds, QuietEngine, QuietJob

\* A user's deletion of an Engine with the finalizer, and a new spec, are quiet.
LEMMA UserKinds ==
  ASSUME EngineInv, Users
  PROVE  Kinds
<1>1. ASSUME NEW spec \in Specs, CreateEngine(spec) PROVE Kinds
  BY <1>1 DEF Kinds
<1>2. ASSUME NEW spec \in Specs, ChangeEngine(spec) PROVE Kinds
  <2>1. view' = view /\ job' = job /\ engine.exists /\ engine \in Stored
    BY <1>2 DEF ChangeEngine, Edit, viewVars, EngineInv
  <2>2. Follows(engine') /\ Store(engine')
    BY <1>2, <2>1, ChangeFollows DEF ChangeEngine, Store
  <2> QED
    BY <2>1, <2>2 DEF Kinds, QuietEngine, QuietJob
<1>3. CASE DeleteEngine
  <2>1. view' = view /\ job' = job /\ engine.exists /\ engine \in Stored
    BY <1>3 DEF DeleteEngine, Edit, viewVars, EngineInv
  <2>2. CASE ~engine.finalizer
    BY <1>3, <2>2 DEF Kinds
  <2>3. CASE engine.finalizer
    <3>1. Follows(engine') /\ Store(engine')
      BY <1>3, <2>1, <2>3, DeletingFollows DEF DeleteEngine, Store
    <3> QED
      BY <2>1, <3>1 DEF Kinds, QuietEngine, QuietJob
  <2> QED
    BY <2>2, <2>3
<1>4. ASSUME NEW r \in RuleSetNames, NEW state \in {"absent", "fine", "degraded"},
             ChangeRuleSet(r, state)
      PROVE  Kinds
  BY <1>4, FrameQuiet DEF ChangeRuleSet, Edit, viewVars
<1>5. ASSUME NEW p \in policies, DeletePolicy(p) PROVE Kinds
  BY <1>5, FrameQuiet DEF DeletePolicy, Drift, viewVars
<1>6. CASE DeletePlugin
  BY <1>6, FrameQuiet DEF DeletePlugin, Drift, viewVars
<1> QED
  BY <1>1, <1>2, <1>3, <1>4, <1>5, <1>6 DEF Users

\* The steps of a reconciliation after it has been decided what to do.
LEMMA WorkKinds ==
  ASSUME EngineInv, JobInv, Work
  PROVE  Kinds
<1> USE DEF Kinds
<1>0. job.pc \in Labels /\ (job'= Idle => QuietJob)
  BY DEF QuietJob, Idle, JobInv, JobType
<1>1. CASE Start \/ Unfinalize \/ Finalize \/ InitializeStatus
  BY <1>1
<1>2. CASE StartFails
  BY <1>2, FrameQuiet DEF StartFails, viewVars
<1>3. CASE Cleanup
  <2>1. QuietEngine
    BY <1>3 DEF Cleanup, viewVars, engineVars, QuietEngine
  <2>2. CASE job' = Idle
    BY <1>0, <2>1, <2>2
  <2>3. CASE job.pc = "cleanup" /\ Goto("unfinalize")
    BY <2>1, <2>3 DEF Goto, QuietJob, JobInv, JobType, Releasing, Working, Provisioning
  <2> QED
    BY <1>3, <2>2, <2>3 DEF Cleanup, Done, Failed
<1>4. CASE CheckRuleSet
  <2>0. view' = view /\ job.pc = "ruleSet"
    BY <1>4 DEF CheckRuleSet, viewVars
  <2>1. CASE Goto("policy") /\ UNCHANGED engineVars
    BY <2>0, <2>1 DEF Goto, QuietEngine, QuietJob, JobInv, JobType, Releasing, Working,
                      Provisioning
  <2>2. CASE Degrade("RuleSetNotFound", FALSE) \/ Degrade("RuleSetDegraded", FALSE)
    BY <1>0, <2>0, <2>2, DegradeQuiet DEF Reasons
  <2>3. CASE Failed /\ UNCHANGED engineVars
    BY <1>0, <2>0, <2>3 DEF Failed, QuietEngine
  <2> QED
    BY <1>4, <2>1, <2>2, <2>3 DEF CheckRuleSet
<1>5. CASE ApplyPolicy
  <2>0. view' = view /\ job.pc = "policy"
    BY <1>5 DEF ApplyPolicy, viewVars
  <2>1. CASE Goto("account") /\ UNCHANGED engineVars
    BY <2>0, <2>1 DEF Goto, QuietEngine, QuietJob, JobInv, JobType, Releasing, Working,
                      Provisioning
  <2>2. CASE Degrade("NetworkPolicyFailed", TRUE)
    BY <1>0, <2>0, <2>2, DegradeQuiet DEF Reasons
  <2>3. CASE StepFails("policy", "NetworkPolicyFailed")
    BY <1>0, <2>0, <2>3, StepFailsQuiet DEF Reasons
  <2> QED
    BY <1>5, <2>1, <2>2, <2>3 DEF ApplyPolicy
<1>6. CASE EnsureAccount
  <2>0. view' = view /\ job.pc = "account"
    BY <1>6 DEF EnsureAccount, viewVars
  <2>1. ASSUME NEW id, job' = [job EXCEPT !.pc = "token", !.account = id],
               UNCHANGED engineVars
        PROVE  Kinds
    BY <2>0, <2>1 DEF QuietEngine, QuietJob, JobInv, JobType, Releasing, Working,
                      Provisioning
  <2>2. CASE StepFails("account", "ServiceAccountFailed")
    BY <1>0, <2>0, <2>2, StepFailsQuiet DEF Reasons
  <2> QED
    BY <1>6, <2>1, <2>2 DEF EnsureAccount
<1>7. CASE EnsureToken
  <2>0. view' = view /\ job.pc = "token"
    BY <1>7 DEF EnsureToken, viewVars
  <2>1. ASSUME NEW t, job' = [job EXCEPT !.pc = "plugin", !.token = t],
               UNCHANGED engineVars
        PROVE  Kinds
    BY <2>0, <2>1 DEF QuietEngine, QuietJob, JobInv, JobType, Releasing, Working,
                      Provisioning
  <2>2. CASE Degrade("TokenFailed", TRUE)
    BY <1>0, <2>0, <2>2, DegradeQuiet DEF Reasons
  <2>3. CASE StepFails("token", "TokenFailed")
    BY <1>0, <2>0, <2>3, StepFailsQuiet DEF Reasons
  <2> QED
    BY <1>7, <2>1, <2>2, <2>3 DEF EnsureToken
<1>8. CASE ApplyPlugin
  <2>0. view' = view /\ job.pc = "plugin"
    BY <1>8 DEF ApplyPlugin, viewVars
  <2>1. CASE Goto("ready") /\ UNCHANGED engineVars
    BY <2>0, <2>1 DEF Goto, QuietEngine, QuietJob, JobInv, JobType, Releasing, Working,
                      Provisioning
  <2>2. CASE StepFails("plugin", "ProvisioningFailed")
    BY <1>0, <2>0, <2>2, StepFailsQuiet DEF Reasons
  <2> QED
    BY <1>8, <2>1, <2>2 DEF ApplyPlugin
<1>9. CASE PatchReady
  <2>0. view' = view /\ job' = Idle
    BY <1>9 DEF PatchReady, viewVars, Failed
  <2>1. CASE PatchTo(Status("Ready", "Configured", job.obj.gen))
    BY <1>0, <2>0, <2>1, PatchQuiet DEF Conditions, Reasons
  <2>2. CASE CallFails
    BY <1>0, <2>0, <2>2 DEF CallFails, QuietEngine
  <2> QED
    BY <1>9, <2>1, <2>2 DEF PatchReady
<1> QED
  BY <1>1, <1>2, <1>3, <1>4, <1>5, <1>6, <1>7, <1>8, <1>9 DEF Work

\* Every step is of one of these kinds.
LEMMA StepKinds ==
  ASSUME EngineInv, JobInv, [Next]_vars
  PROVE  Kinds
<1>1. CASE Users
  BY <1>1, UserKinds
<1>2. CASE Deliver
  <2>1. CASE DeliverEngine
    BY <2>1 DEF Kinds
  <2>2. CASE DeliverAccounts \/ DeliverEvent
    BY <2>2, FrameQuiet DEF DeliverAccounts, DeliverEvent, viewVars
  <2>3. ASSUME NEW r \in RuleSetNames, DeliverRuleSet(r) PROVE Kinds
    BY <2>3, FrameQuiet DEF DeliverRuleSet
  <2>4. ASSUME NEW id \in PolicyChanges, DeliverPolicy(id) PROVE Kinds
    BY <2>4, FrameQuiet DEF DeliverPolicy
  <2> QED
    BY <1>2, <2>1, <2>2, <2>3, <2>4 DEF Deliver
<1>3. CASE DeliverTarget \/ CollectGarbage \/ Tick
  BY <1>3, FrameQuiet DEF DeliverTarget, CollectGarbage, Tick, viewVars
<1>4. CASE Work
  BY <1>4, WorkKinds
<1>5. CASE Restart
  BY <1>5 DEF Kinds
<1>6. CASE UNCHANGED vars
  BY <1>6, FrameQuiet DEF vars, engineVars
<1> QED
  BY <1>1, <1>2, <1>3, <1>4, <1>5, <1>6 DEF Next

-----------------------------------------------------------------------------
(* Types are kept.                                                         *)

\* A version is added to the log.
LEMMA StoreType ==
  ASSUME EngineInv, NEW v \in Stored, Store(v), view' = view
  PROVE  EngineInv'
BY AppendProperties DEF EngineInv, Store

\* The versions of the Engine stay versions.
LEMMA EngineTypes ==
  ASSUME EngineInv, JobInv, Kinds
  PROVE  EngineInv'
<1>0. engine \in Stored /\ view \in Stored /\ log \in Seq(Stored)
  BY DEF EngineInv
<1>1. ASSUME NEW spec \in Specs, CreateEngine(spec) PROVE EngineInv'
  <2>1. view' = view /\ Store(Created(spec)) /\ engine.uid < MaxIncarnations
    BY <1>1 DEF CreateEngine, Edit, viewVars
  <2> QED
    BY <1>0, <2>1, CreatedStored, StoreType
<1>2. CASE DeleteEngine /\ ~engine.finalizer
  <2>1. view' = view /\ Store(Gone)
    BY <1>2 DEF DeleteEngine, Edit, viewVars
  <2> QED
    BY <1>0, <2>1, GoneStored, StoreType
<1>3. CASE DeliverEngine
  <2>1. Head(log) \in Stored /\ Tail(log) \in Seq(Stored)
    BY <1>0, <1>3, HeadTailProperties DEF DeliverEngine
  <2> QED
    BY <1>0, <1>3, <2>1 DEF DeliverEngine, EngineInv
<1>4. CASE Start
  BY <1>0, <1>4 DEF Start, EngineInv, engineVars, viewVars
<1>5. CASE Unfinalize
  <2>1. view' = view
    BY <1>5 DEF Unfinalize, viewVars
  <2>2. CASE UNCHANGED engineVars
    BY <1>0, <2>1, <2>2 DEF EngineInv, engineVars
  <2>3. CASE Store(Gone)
    BY <1>0, <2>1, <2>3, GoneStored, StoreType
  <2>4. CASE engine.exists /\ ~engine.deleting /\ Store([engine EXCEPT !.finalizer = FALSE])
    BY <1>0, <2>1, <2>4, FinalizerStored, StoreType
  <2> QED
    BY <1>5, <2>2, <2>3, <2>4 DEF Unfinalize, CallFails
<1>6. CASE Finalize
  <2>1. view' = view
    BY <1>6 DEF Finalize, viewVars
  <2>2. CASE UNCHANGED engineVars
    BY <1>0, <2>1, <2>2 DEF EngineInv, engineVars
  <2>3. CASE engine.exists /\ Store([engine EXCEPT !.finalizer = TRUE])
    BY <1>0, <2>1, <2>3, FinalizerStored, StoreType
  <2> QED
    BY <1>6, <2>2, <2>3 DEF Finalize, CallFails
<1>7. ASSUME QuietEngine PROVE EngineInv'
  BY <1>0, <1>7, StoreType DEF QuietEngine, Follows, EngineInv, engineVars
<1>8. CASE InitializeStatus
  BY <1>7, <1>8, InitializeQuiet
<1>9. CASE Restart
  <2>1. <<>> \in Seq(Stored)
    BY EmptySeq
  <2> QED
    BY <1>0, <1>9, <2>1 DEF Restart, EngineInv
<1> QED
  BY <1>1, <1>2, <1>3, <1>4, <1>5, <1>6, <1>7, <1>8, <1>9 DEF Kinds

\* Tokens that get older or are dropped are tokens.
LEMMA OlderType ==
  ASSUME NEW t \in TokenType \cup {NoToken}
  PROVE  /\ Older(t) \in TokenType \cup {NoToken}
         /\ t # NoToken => Older(t) \in TokenType /\ Older(t).ruleSet = t.ruleSet
<1>1. CASE t # NoToken /\ t.age < Lifetime
  <2> DEFINE a == t.age + 1
  <2>1. t \in TokenType /\ t.age \in 0..Lifetime /\ Older(t) = [t EXCEPT !.age = a]
    BY <1>1 DEF TokenType, Older
  <2>2. a \in 0..Lifetime
    BY <1>1, <2>1, TokenAssumption
  <2> HIDE DEF a
  <2> QED
    BY <2>1, <2>2 DEF TokenType
<1>2. CASE ~(t # NoToken /\ t.age < Lifetime)
  <2>1. Older(t) = t
    BY <1>2 DEF Older
  <2> QED
    BY <2>1
<1> QED
  BY <1>1, <1>2

\* What EnsureToken may put into the store.
LEMMA RequestedType ==
  ASSUME JobInv, job.pc = "token"
  PROVE  LET t == [account |-> job.account, ruleSet |-> job.obj.ruleSet, age |-> 0] IN
         t \in TokenType /\ t.ruleSet = job.obj.ruleSet /\ t.age < RenewAt
<1>1. job.account \in Nat \ {0} /\ job.obj.ruleSet \in RuleSetNames
  BY DEF JobInv, JobType, Provisioning, Stored
<1>2. 0 \in 0..Lifetime /\ 0 < RenewAt
  BY TokenAssumption
<1> QED
  BY <1>1, <1>2 DEF TokenType

\* The token store is changed by three actions.
LEMMA TokenStoreChanges ==
  ASSUME [Next]_vars
  PROVE  UNCHANGED tokenStore \/ EnsureToken \/ Restart \/ Tick
<1>1. CASE Users
  BY <1>1 DEF Users, CreateEngine, ChangeEngine, DeleteEngine, ChangeRuleSet, DeletePolicy,
              DeletePlugin, Edit, Drift
<1>2. CASE Deliver \/ DeliverTarget \/ CollectGarbage
  BY <1>2 DEF Deliver, DeliverEngine, DeliverAccounts, DeliverEvent, DeliverRuleSet,
              DeliverPolicy, DeliverTarget, CollectGarbage
<1>3. CASE Work
  BY <1>3 DEF Work, Start, StartFails, Cleanup, Unfinalize, Finalize, InitializeStatus,
              CheckRuleSet, ApplyPolicy, EnsureAccount, ApplyPlugin, PatchReady
<1> QED
  BY <1>1, <1>2, <1>3 DEF Next, vars

\* Tokens stay where they belong.
LEMMA TokenTypes ==
  ASSUME TInv, [Next]_vars
  PROVE  TokensInv'
<1>0. tokenStore \in [RuleSetNames -> TokenType \cup {NoToken}]
      /\ \A r \in RuleSetNames : tokenStore[r] # NoToken => tokenStore[r].ruleSet = r
  BY DEF TInv, TokensInv
<1>1. CASE UNCHANGED tokenStore
  BY <1>0, <1>1 DEF TokensInv
<1>2. CASE EnsureToken
  <2>1. CASE UNCHANGED tokenStore
    BY <1>1, <2>1
  <2>2. CASE ~UNCHANGED tokenStore
    <3> DEFINE t == [account |-> job.account, ruleSet |-> job.obj.ruleSet, age |-> 0]
    <3>1. job.pc = "token" /\ StoreToken(t)
      BY <1>2, <2>2 DEF EnsureToken
    <3>2. t \in TokenType /\ t.ruleSet = job.obj.ruleSet
      BY <3>1, RequestedType DEF TInv
    <3> HIDE DEF t
    <3> QED
      BY <1>0, <3>1, <3>2 DEF StoreToken, tokenKey, TokensInv
  <2> QED
    BY <2>1, <2>2
<1>3. CASE Restart
  BY <1>3 DEF Restart, TokensInv
<1>4. CASE Tick
  <2>1. tokenStore' = [r \in RuleSetNames |-> Older(tokenStore[r])]
    BY <1>4 DEF Tick
  <2>2. ASSUME NEW r \in RuleSetNames
        PROVE  /\ tokenStore'[r] \in TokenType \cup {NoToken}
               /\ tokenStore'[r] # NoToken => tokenStore'[r].ruleSet = r
    <3>1. tokenStore[r] \in TokenType \cup {NoToken} /\ tokenStore'[r] = Older(tokenStore[r])
      BY <1>0, <2>1
    <3>2. tokenStore[r] = NoToken => Older(tokenStore[r]) = NoToken
      BY DEF Older
    <3> QED
      BY <1>0, <3>1, <3>2, OlderType
  <2> QED
    BY <2>1, <2>2 DEF TokensInv
<1> QED
  BY <1>1, <1>2, <1>3, <1>4, TokenStoreChanges

\* What the operator, users and the garbage collector do to objects.
LEMMA ObjectTypes ==
  ASSUME TInv, [Next]_vars
  PROVE  ObjectsInv'
<1>0. ObjectsInv /\ JobInv
  BY DEF TInv
<1>F. ASSUME UNCHANGED <<ruleSet, policies, accounts, accountView, drifts>>
      PROVE  ObjectsInv'
  BY <1>0, <1>F DEF ObjectsInv
<1>P. ASSUME UNCHANGED <<ruleSet, accounts, accountView>>, drifts' \in Nat,
             policies' \subseteq [id : Nat, target : Targets], IsFiniteSet(policies')
      PROVE  ObjectsInv'
  BY <1>0, <1>P DEF ObjectsInv
<1>A. ASSUME UNCHANGED <<ruleSet, policies, drifts>>,
             accounts' \subseteq Accounts, IsFiniteSet(accounts'),
             accountView' \in {accounts, accountView}
      PROVE  ObjectsInv'
  BY <1>0, <1>A DEF ObjectsInv
<1>D. ASSUME Drift PROVE drifts' \in Nat /\ UNCHANGED <<ruleSet, accounts, accountView>>
  BY <1>0, <1>D DEF Drift, ObjectsInv, viewVars
<1>S. ASSUME policies' \subseteq policies
      PROVE  policies' \subseteq [id : Nat, target : Targets] /\ IsFiniteSet(policies')
  BY <1>0, <1>S, FS_Subset DEF ObjectsInv
<1>1. CASE \E spec \in Specs : CreateEngine(spec) \/ ChangeEngine(spec)
  BY <1>F, <1>1 DEF CreateEngine, ChangeEngine, Edit, viewVars
<1>2. CASE DeleteEngine
  BY <1>F, <1>2 DEF DeleteEngine, Edit, viewVars
<1>3. CASE \E r \in RuleSetNames, state \in {"absent", "fine", "degraded"} :
             ChangeRuleSet(r, state)
  BY <1>0, <1>3 DEF ChangeRuleSet, Edit, viewVars, ObjectsInv
<1>4. CASE \E p \in policies : DeletePolicy(p)
  <2>1. Drift /\ policies' \subseteq policies
    BY <1>4 DEF DeletePolicy
  <2> QED
    BY <1>D, <1>P, <1>S, <2>1
<1>5. CASE DeletePlugin
  <2>1. Drift /\ policies' = policies
    BY <1>5 DEF DeletePlugin
  <2> QED
    BY <1>D, <1>P, <1>S, <2>1
<1>6. CASE DeliverEngine \/ DeliverEvent \/ DeliverTarget
  BY <1>F, <1>6 DEF DeliverEngine, DeliverEvent, DeliverTarget, viewVars, bounds
<1>7. CASE DeliverAccounts
  BY <1>0, <1>A, <1>7 DEF DeliverAccounts, bounds, ObjectsInv
<1>8. CASE (\E r \in RuleSetNames : DeliverRuleSet(r)) \/
           (\E id \in PolicyChanges : DeliverPolicy(id))
  BY <1>F, <1>8 DEF DeliverRuleSet, DeliverPolicy, bounds
<1>9. CASE CollectGarbage
  <2>1. accounts' \subseteq accounts /\ UNCHANGED <<ruleSet, policies, accountView, drifts>>
    BY <1>9 DEF CollectGarbage, viewVars, bounds
  <2>2. accounts' \subseteq Accounts /\ IsFiniteSet(accounts')
    BY <1>0, <2>1, FS_Subset DEF ObjectsInv
  <2> QED
    BY <1>A, <2>1, <2>2
<1>10. CASE Start \/ StartFails \/ Unfinalize \/ Finalize \/ InitializeStatus
            \/ CheckRuleSet \/ EnsureToken \/ ApplyPlugin \/ PatchReady
  BY <1>F, <1>10 DEF Start, StartFails, Unfinalize, Finalize, InitializeStatus, CheckRuleSet,
                     EnsureToken, ApplyPlugin, PatchReady, viewVars, bounds
<1>11. CASE Cleanup
  <2>1. policies' \subseteq policies /\ UNCHANGED <<ruleSet, accounts, accountView, drifts>>
    BY <1>11 DEF Cleanup, viewVars
  <2> QED
    BY <1>0, <1>P, <1>S, <2>1 DEF ObjectsInv
<1>12. CASE ApplyPolicy
  <2>1. UNCHANGED <<ruleSet, accounts, accountView, drifts>> /\ job.pc = "policy"
    BY <1>12 DEF ApplyPolicy, viewVars
  <2>2. job.obj.target \in Targets
    BY <1>0, <2>1 DEF JobInv, JobType, Provisioning, Stored
  <2>3. policies \subseteq [id : Nat, target : Targets] /\ IsFiniteSet(policies)
        /\ drifts \in Nat
    BY <1>0 DEF ObjectsInv
  <2>4. FreshId(Ids(policies)) \in Nat
    BY <2>3, IdsFinite, FreshIdType
  <2>5. ASSUME NEW p \in [id : Nat, target : Targets], policies' \subseteq policies \cup {p}
        PROVE  ObjectsInv'
    <3>1. IsFiniteSet(policies \cup {p})
      BY <2>3, FS_AddElement
    <3>2. IsFiniteSet(policies') /\ policies' \subseteq [id : Nat, target : Targets]
      BY <2>3, <2>5, <3>1, FS_Subset
    <3> QED
      BY <1>P, <2>1, <2>3, <3>2
  <2>6. CASE policies' = policies
    BY <1>F, <2>1, <2>6
  <2>7. CASE policies' = policies \cup {[id |-> FreshId(Ids(policies)), target |-> job.obj.target]}
    BY <2>2, <2>4, <2>5, <2>7
  <2>8. ASSUME NEW p \in policies, policies' = (policies \ {p}) \cup {UpdatedPolicy(p)}
        PROVE  ObjectsInv'
    <3>1. UpdatedPolicy(p) \in [id : Nat, target : Targets]
      BY <2>2, <2>3 DEF UpdatedPolicy
    <3> QED
      BY <2>5, <2>8, <3>1
  <2> QED
    BY <1>12, <2>6, <2>7, <2>8 DEF ApplyPolicy
<1>13. CASE EnsureAccount
  <2>1. UNCHANGED <<ruleSet, policies, accountView, drifts>> /\ job.pc = "account"
    BY <1>13 DEF EnsureAccount, viewVars
  <2>2. CASE accounts' = accounts
    BY <1>F, <2>1, <2>2
  <2>3. CASE accounts' = accounts \cup {[id |-> FreshId(AccountIds), uid |-> job.obj.uid]}
    <3>1. FreshId(AccountIds) \in Nat \ {0}
      BY <1>0, AccountIdsFinite, FreshIdType DEF TInv
    <3>2. job.obj.uid \in 1..MaxIncarnations
      <4>1. job.obj \in Stored /\ job.obj.uid # 0
        BY <1>0, <2>1 DEF JobInv, JobType, Provisioning, Stored
      <4> QED
        BY <4>1, StoredType, BoundsAreNumbers
    <3>3. accounts' \subseteq Accounts
      BY <1>0, <2>3, <3>1, <3>2 DEF Accounts, ObjectsInv
    <3>4. IsFiniteSet(accounts')
      BY <1>0, <2>3, FS_AddElement DEF ObjectsInv
    <3> QED
      BY <1>A, <2>1, <3>3, <3>4
  <2> QED
    BY <1>13, <2>2, <2>3 DEF EnsureAccount
<1>14. CASE Restart
  BY <1>0, <1>A, <1>14 DEF Restart, ObjectsInv
<1>15. CASE Tick
  BY <1>F, <1>15 DEF Tick, viewVars, bounds
<1>16. CASE UNCHANGED vars
  BY <1>F, <1>16 DEF vars
<1> QED
  BY <1>1, <1>2, <1>3, <1>4, <1>5, <1>6, <1>7, <1>8, <1>9, <1>10, <1>11, <1>12, <1>13,
     <1>14, <1>15, <1>16 DEF Next, Users, Deliver, Work

\* The plugin is changed by those that delete it, one step of a
\* reconciliation, and the clock.
LEMMA PluginChanges ==
  ASSUME [Next]_vars
  PROVE  UNCHANGED plugin \/ plugin' = NoPlugin \/ ApplyPlugin \/ Tick
<1>1. CASE Users
  BY <1>1 DEF Users, CreateEngine, ChangeEngine, DeleteEngine, ChangeRuleSet, DeletePolicy,
              DeletePlugin, Edit
<1>2. CASE Deliver \/ DeliverTarget \/ CollectGarbage \/ Restart
  BY <1>2 DEF Deliver, DeliverEngine, DeliverAccounts, DeliverEvent, DeliverRuleSet,
              DeliverPolicy, DeliverTarget, CollectGarbage, Restart
<1>3. CASE Work
  BY <1>3 DEF Work, Start, StartFails, Cleanup, Unfinalize, Finalize, InitializeStatus,
              CheckRuleSet, ApplyPolicy, EnsureAccount, EnsureToken, PatchReady
<1> QED
  BY <1>1, <1>2, <1>3 DEF Next, vars

\* The plugin's token stays the one for its RuleSet.
LEMMA PluginTypes ==
  ASSUME TInv, [Next]_vars
  PROVE  PluginInv'
<1>0. PluginInv /\ JobInv
  BY DEF TInv
<1>1. CASE UNCHANGED plugin \/ plugin' = NoPlugin
  BY <1>0, <1>1 DEF PluginInv, TokenScoped
<1>2. CASE ApplyPlugin /\ ~UNCHANGED plugin
  <2>1. job.pc = "plugin" /\ plugin' = buildWasmPlugin
    BY <1>2 DEF ApplyPlugin
  <2>2. /\ job.obj \in Stored /\ job.obj.exists
        /\ job.token \in TokenType /\ job.token.ruleSet = job.obj.ruleSet
    BY <1>0, <2>1 DEF JobInv, JobType, Provisioning
  <2>3. job.obj.uid \in Nat /\ job.obj.ruleSet \in RuleSetNames /\ job.obj.target \in Targets
    BY <2>2, StoredType DEF Stored
  <2> QED
    BY <2>1, <2>2, <2>3 DEF buildWasmPlugin, PluginInv, PluginType, TokenScoped
<1>3. CASE Tick /\ plugin # NoPlugin
  <2> DEFINE t == Older(plugin.token)
  <2>1. plugin \in PluginType /\ plugin.token \in TokenType
        /\ plugin.token.ruleSet = plugin.ruleSet
    BY <1>0, <1>3 DEF PluginInv, PluginType, TokenScoped
  <2>2. plugin' = [plugin EXCEPT !.token = t]
    BY <1>3, <2>1 DEF Tick, PluginType
  <2>3. t \in TokenType /\ t.ruleSet = plugin.token.ruleSet
    <3>1. CASE plugin.token # NoToken
      BY <2>1, <3>1, OlderType
    <3>2. CASE plugin.token = NoToken
      BY <2>1, <3>2 DEF Older
    <3> QED
      BY <3>1, <3>2
  <2> HIDE DEF t
  <2> QED
    BY <2>1, <2>2, <2>3 DEF PluginInv, PluginType, TokenScoped
<1>4. CASE Tick /\ plugin = NoPlugin
  BY <1>1, <1>4 DEF Tick
<1> QED
  BY <1>1, <1>2, <1>3, <1>4, PluginChanges

\* Between reconciliations.
LEMMA IdleJob ==
  ASSUME job' = Idle
  PROVE  JobInv'
<1>1. job' = [pc |-> "idle", obj |-> Missing, account |-> 0, token |-> NoToken]
  BY DEF Idle
<1>2. job' \in JobType
  BY <1>1, MissingStored DEF JobType, Labels
<1> QED
  BY <1>1, <1>2 DEF JobInv, Provisioning

\* A reconciliation goes from one step of provisioning to the next.
LEMMA GotoJob ==
  ASSUME JobInv, NEW label,
         \/ job.pc = "ruleSet" /\ label = "policy"
         \/ job.pc = "policy" /\ label = "account"
         \/ job.pc = "plugin" /\ label = "ready"
         \/ job.pc = "cleanup" /\ label = "unfinalize",
         Goto(label)
  PROVE  JobInv'
<1>1. job \in JobType /\ label \in Labels /\ job' = [job EXCEPT !.pc = label]
  BY DEF JobInv, Goto, Labels, Provisioning
<1>2. job' \in JobType /\ job'.pc = label /\ job'.obj = job.obj /\ job'.account = job.account
      /\ job'.token = job.token
  BY <1>1 DEF JobType
<1> QED
  BY <1>2 DEF JobInv, Provisioning

\* What the reconciliation has read and been given fits where it stands.
LEMMA JobTypes ==
  ASSUME TInv, [Next]_vars
  PROVE  JobInv'
<1>0. EngineInv /\ JobInv
  BY DEF TInv
<1>F. ASSUME UNCHANGED job PROVE JobInv'
  BY <1>0, <1>F DEF JobInv
<1>1. CASE Users \/ Deliver \/ DeliverTarget \/ CollectGarbage \/ Tick \/ UNCHANGED vars
  <2>1. UNCHANGED job
    BY <1>1 DEF Users, CreateEngine, ChangeEngine, DeleteEngine, ChangeRuleSet, DeletePolicy,
                DeletePlugin, Edit, Drift, Deliver, DeliverEngine, DeliverAccounts,
                DeliverEvent, DeliverRuleSet, DeliverPolicy, DeliverTarget, CollectGarbage,
                Tick, vars
  <2> QED
    BY <1>F, <2>1
<1>2. CASE Start
  <2>1. job' = [Idle EXCEPT !.pc = FirstStep(view), !.obj = view]
    BY <1>2 DEF Start
  <2>2. job' = [pc |-> FirstStep(view), obj |-> view, account |-> 0, token |-> NoToken]
    BY <2>1 DEF Idle
  <2>3. FirstStep(view) \in Labels /\ view \in Stored
    BY <1>0 DEF FirstStep, Labels, Provisioning, EngineInv
  <2>4. job' \in JobType
    BY <2>2, <2>3 DEF JobType
  <2> QED
    BY <2>2, <2>4 DEF JobInv, FirstStep, Provisioning
<1>3. CASE StartFails
  BY <1>F, <1>3 DEF StartFails
<1>4. CASE Cleanup
  BY <1>0, <1>4, IdleJob, GotoJob DEF Cleanup, Done, Failed
<1>5. CASE Unfinalize \/ Finalize \/ PatchReady \/ Restart
  BY <1>5, IdleJob DEF Unfinalize, Finalize, PatchReady, Restart, Done, Failed
<1>6. CASE InitializeStatus
  <2>1. CASE job' = Idle
    BY <2>1, IdleJob
  <2>2. CASE PatchTo(Status("Progressing", "Reconciling", job.obj.gen)) /\
             job' = [job EXCEPT !.pc = "ruleSet", !.obj = engine']
    <3>1. engine' \in Stored /\ engine'.exists
      <4>1. QuietEngine /\ engine.exists
        BY <1>0, <1>6, <2>2, InitializeQuiet DEF PatchTo
      <4> QED
        BY <1>0, <4>1 DEF QuietEngine, Follows, EngineInv, engineVars
    <3>2. job' \in JobType /\ job'.pc = "ruleSet" /\ job'.obj = engine'
      BY <1>0, <2>2, <3>1 DEF JobInv, JobType, Labels
    <3> QED
      BY <3>1, <3>2 DEF JobInv, Provisioning
  <2> QED
    BY <1>6, <2>1, <2>2 DEF InitializeStatus, Failed
<1>D. ASSUME NEW reason, NEW retriable, Degrade(reason, retriable) PROVE job' = Idle
  BY <1>D DEF Degrade, Failed, Done
<1>S. ASSUME NEW label, NEW reason, StepFails(label, reason) PROVE job' = Idle
  BY <1>S DEF StepFails, Failed
<1>7. CASE CheckRuleSet
  <2>1. CASE job' = Idle
    BY <2>1, IdleJob
  <2>2. CASE job.pc = "ruleSet" /\ Goto("policy")
    BY <1>0, <2>2, GotoJob
  <2> QED
    BY <1>7, <1>D, <2>1, <2>2 DEF CheckRuleSet, Failed
<1>8. CASE ApplyPolicy
  <2>1. CASE job' = Idle
    BY <2>1, IdleJob
  <2>2. CASE job.pc = "policy" /\ Goto("account")
    BY <1>0, <2>2, GotoJob
  <2> QED
    BY <1>8, <1>D, <1>S, <2>1, <2>2 DEF ApplyPolicy
<1>9. CASE EnsureAccount
  <2>1. CASE job' = Idle
    BY <2>1, IdleJob
  <2>2. ASSUME NEW id \in Nat \ {0}, job' = [job EXCEPT !.pc = "token", !.account = id]
        PROVE  JobInv'
    <3>1. job.pc = "account"
      BY <1>9 DEF EnsureAccount
    <3>2. /\ job' \in JobType /\ job'.pc = "token" /\ job'.obj = job.obj
          /\ job'.account = id
      BY <1>0, <2>2 DEF JobInv, JobType, Labels, Provisioning
    <3> QED
      BY <1>0, <3>1, <3>2 DEF JobInv, Provisioning
  <2>3. FreshId(AccountIds) \in Nat \ {0}
    BY AccountIdsFinite, FreshIdType DEF TInv
  <2>4. \A a \in accountView : a.id \in Nat \ {0}
    BY DEF TInv, ObjectsInv, Accounts
  <2> QED
    BY <1>9, <1>S, <2>1, <2>2, <2>3, <2>4 DEF EnsureAccount
<1>10. CASE EnsureToken
  <2>0. job.pc = "token" /\ job.obj.ruleSet \in RuleSetNames
    BY <1>0, <1>10 DEF EnsureToken, JobInv, JobType, Provisioning, Stored
  <2>1. CASE job' = Idle
    BY <2>1, IdleJob
  <2>2. ASSUME NEW t \in TokenType, t.ruleSet = job.obj.ruleSet, t.age < RenewAt,
               job' = [job EXCEPT !.pc = "plugin", !.token = t]
        PROVE  JobInv'
    <3>1. /\ job' \in JobType /\ job'.pc = "plugin" /\ job'.obj = job.obj
          /\ job'.account = job.account /\ job'.token = t
      BY <1>0, <2>2 DEF JobInv, JobType, Labels, Provisioning
    <3> QED
      BY <1>0, <2>0, <2>2, <3>1 DEF JobInv, Provisioning
  <2> DEFINE stored == tokenStore[tokenKey(job.obj.ruleSet)]
             requested == [account |-> job.account, ruleSet |-> job.obj.ruleSet, age |-> 0]
  <2>3. ~NeedsRenewal(stored) =>
          stored \in TokenType /\ stored.ruleSet = job.obj.ruleSet /\ stored.age < RenewAt
    <3>1. stored \in TokenType \cup {NoToken} /\ (stored # NoToken => stored.ruleSet = job.obj.ruleSet)
      BY <2>0 DEF TInv, TokensInv, tokenKey
    <3> HIDE DEF stored
    <3>2. stored \in TokenType => stored.age \in Nat
      BY TokenAssumption DEF TokenType
    <3> QED
      BY <3>1, <3>2, TokenAssumption DEF NeedsRenewal
  <2>4. requested \in TokenType /\ requested.ruleSet = job.obj.ruleSet
        /\ requested.age < RenewAt
    BY <1>0, <2>0, RequestedType
  <2>5. CASE ~NeedsRenewal(stored) /\ job' = [job EXCEPT !.pc = "plugin", !.token = stored]
    <3> HIDE DEF stored
    <3> QED
      BY <2>2, <2>3, <2>5
  <2>6. CASE job' = [job EXCEPT !.pc = "plugin", !.token = requested]
    <3> HIDE DEF requested
    <3> QED
      BY <2>2, <2>4, <2>6
  <2> QED
    BY <1>10, <1>D, <1>S, <2>1, <2>5, <2>6 DEF EnsureToken
<1>11. CASE ApplyPlugin
  <2>1. CASE job' = Idle
    BY <2>1, IdleJob
  <2>2. CASE job.pc = "plugin" /\ Goto("ready")
    BY <1>0, <2>2, GotoJob
  <2> QED
    BY <1>11, <1>S, <2>1, <2>2 DEF ApplyPlugin
<1> QED
  BY <1>1, <1>2, <1>3, <1>4, <1>5, <1>6, <1>7, <1>8, <1>9, <1>10, <1>11 DEF Next, Work

\* A wake-up is never later than a renewal.
LEMMA WakeTypes ==
  ASSUME TInv, [Next]_vars
  PROVE  WakeInv'
<1>0. wake \in 0..RenewAt \cup {Never} /\ RenewAt \in Nat /\ JobInv
  BY TokenAssumption DEF TInv, WakeInv
<1>F. ASSUME wake' \in {wake, 0, Never} PROVE WakeInv'
  BY <1>0, <1>F DEF WakeInv
<1>1. CASE Users \/ Deliver \/ DeliverTarget \/ CollectGarbage \/ Restart \/ UNCHANGED vars
  <2>1. wake' \in {wake, 0, Never}
    BY <1>1 DEF Users, CreateEngine, ChangeEngine, DeleteEngine, ChangeRuleSet, DeletePolicy,
                DeletePlugin, Edit, Drift, Deliver, DeliverEngine, DeliverAccounts,
                DeliverEvent, DeliverRuleSet, DeliverPolicy, DeliverTarget, CollectGarbage,
                Restart, Enqueue, vars
  <2> QED
    BY <1>F, <2>1
<1>2. CASE Work /\ ~PatchReady
  <2>D. ASSUME NEW reason, NEW retriable, Degrade(reason, retriable) PROVE wake' \in {wake, 0}
    BY <2>D DEF Degrade, Failed, Done
  <2>S. ASSUME NEW label, NEW reason, StepFails(label, reason) PROVE wake' \in {wake, 0}
    BY <2>S DEF StepFails, Failed
  <2>1. wake' \in {wake, 0, Never}
    BY <1>2, <2>D, <2>S DEF Work, Start, StartFails, Cleanup, Unfinalize, Finalize,
         InitializeStatus, CheckRuleSet, ApplyPolicy, EnsureAccount, EnsureToken,
         ApplyPlugin, Done, Failed, Goto
  <2> QED
    BY <1>F, <2>1
<1>3. CASE PatchReady
  <2>1. job.token.age \in Nat /\ job.token.age < RenewAt
    BY <1>0, <1>3, TokenAssumption DEF PatchReady, JobInv, TokenType
  <2>2. wake' \in {0, RenewAt - job.token.age}
    BY <1>3 DEF PatchReady, Failed, RequeueAfter
  <2> QED
    BY <1>0, <2>1, <2>2 DEF WakeInv
<1>4. CASE Tick
  <2>1. wake # 0 /\ wake' = IF wake = Never THEN Never ELSE wake - 1
    BY <1>4 DEF Tick, Settled
  <2> QED
    BY <1>0, <2>1 DEF WakeInv
<1> QED
  BY <1>1, <1>2, <1>3, <1>4 DEF Next

\* The invariant holds at the start.
LEMMA InitTInv == Init => TInv
<1> SUFFICES ASSUME Init PROVE TInv
  OBVIOUS
<1>1. EngineInv
  BY MissingStored, EmptySeq DEF Init, EngineInv
<1>2. ObjectsInv
  BY FS_EmptySet DEF Init, ObjectsInv
<1>3. TokensInv /\ PluginInv /\ WakeInv
  BY DEF Init, TokensInv, PluginInv, TokenScoped, WakeInv
<1>4. JobInv
  <2>1. job \in JobType /\ job.pc = "idle"
    BY MissingStored DEF Init, Idle, JobType, Labels
  <2> QED
    BY <2>1 DEF JobInv, Provisioning
<1> QED
  BY <1>1, <1>2, <1>3, <1>4 DEF TInv

\* Every step keeps it.
LEMMA NextTInv == TInv /\ [Next]_vars => TInv'
<1> SUFFICES ASSUME TInv, [Next]_vars PROVE TInv'
  OBVIOUS
<1>1. EngineInv'
  BY StepKinds, EngineTypes DEF TInv
<1> QED
  BY <1>1, ObjectTypes, TokenTypes, PluginTypes, JobTypes, WakeTypes DEF TInv

\* The invariant is one.
LEMMA TInvHolds == Spec => []TInv
BY InitTInv, NextTInv, PTL DEF Spec

\* Types: a reconciliation that has something to provision holds a version
\* of the Engine that names a RuleSet and a target, the token it hands on is
\* one, and the work queue never sleeps past a renewal, whatever it read and
\* however late (Reconcile, provisionWasmDriver, ensureCacheToken).
THEOREM TypeCorrect == Spec => []TypeOK
BY TInvHolds, TInvTypes, PTL

\* A plugin's token is one issued for the RuleSet that the plugin polls
\* (tokenKey, ensureCacheToken, buildWasmPlugin).
THEOREM TokenIsScoped == Spec => []TokenScoped
<1>1. TInv => TokenScoped
  BY DEF TInv, PluginInv
<1> QED
  BY <1>1, TInvHolds, PTL

-----------------------------------------------------------------------------
(* The finalizer.                                                          *)

\* Precedes is an order on versions.
LEMMA PrecedesOrder ==
  ASSUME NEW a \in Stored, NEW b \in Stored, NEW c \in Stored
  PROVE  Precedes(a, a) /\ (Precedes(a, b) /\ Precedes(b, c) => Precedes(a, c))
<1>1. a.uid \in Nat /\ b.uid \in Nat /\ c.uid \in Nat
  BY StoredType
<1> QED
  BY <1>1 DEF Precedes

\* A quiet change of the Engine comes after the Engine as it was.
LEMMA FollowsPrecedes ==
  ASSUME engine \in Stored, engine.exists, NEW v, Follows(v)
  PROVE  Precedes(engine, v)
BY StoredType DEF Follows, Precedes

\* The informer is behind everything it may still deliver, and the API
\* server ahead of it.
LEMMA KnownOrdered ==
  ASSUME EngineInv, HistoryOrdered
  PROVE  /\ Known \subseteq Stored /\ view \in Known /\ engine \in Known
         /\ \A v \in Known : Precedes(view, v) /\ Precedes(v, engine)
<1>0. engine \in Stored /\ view \in Stored /\ log \in Seq(Stored)
  BY DEF EngineInv
<1>1. \A i \in 1..Len(log) : log[i] \in Stored
  BY <1>0, ElementOfSeq
<1>2. Known \subseteq Stored /\ view \in Known
  BY <1>0, <1>1 DEF Known
<1>3. CASE log = <<>>
  <2>1. Len(log) = 0 /\ engine = view
    BY <1>3, EmptySeq DEF HistoryOrdered
  <2>2. Known = {view}
    BY <2>1 DEF Known
  <2> QED
    BY <1>0, <1>2, <2>1, <2>2, PrecedesOrder
<1>4. CASE log # <<>>
  <2>1. Len(log) \in 1..Len(log)
    BY <1>0, <1>4, EmptySeq, LenProperties
  <2>2. engine = log[Len(log)] /\ engine \in Known
    BY <1>4, <2>1 DEF HistoryOrdered, Known
  <2>3. \A i \in 1..Len(log) : Precedes(view, log[i]) /\ Precedes(log[i], engine)
    BY <2>1, <2>2 DEF HistoryOrdered
  <2>4. Precedes(view, view) /\ Precedes(view, engine)
    BY <1>0, <2>1, <2>2, <2>3, PrecedesOrder
  <2> QED
    BY <1>2, <2>2, <2>3, <2>4 DEF Known
<1> QED
  BY <1>3, <1>4

\* A newer version in the API server.
LEMMA StoreKnown ==
  ASSUME EngineInv, HistoryOrdered, NEW v \in Stored, Precedes(engine, v),
         Store(v), view' = view
  PROVE  HistoryOrdered' /\ Known' = Known \cup {v} /\ engine' = v
<1>0. log \in Seq(Stored) /\ Len(log) \in Nat
  BY LenProperties DEF EngineInv
<1>1. /\ engine' = v /\ log' = Append(log, v)
      /\ Len(log') = Len(log) + 1
      /\ \A i \in 1..Len(log) : log'[i] = log[i]
      /\ log'[Len(log) + 1] = v
      /\ log' # <<>>
  BY <1>0, AppendProperties DEF Store
<1>2. 1..Len(log') = (1..Len(log)) \cup {Len(log')} /\ Len(log') \notin 1..Len(log)
  BY <1>0, <1>1
<1>3. Known' = Known \cup {v}
  BY <1>1, <1>2 DEF Known
<1>4. \A u \in Known : u \in Stored /\ Precedes(u, v)
  BY KnownOrdered, PrecedesOrder DEF EngineInv
<1>5. \A i \in 1..Len(log) : log[i] \in Known
  BY DEF Known
<1>6. Precedes(v, v) /\ Precedes(view, v)
  BY <1>4, KnownOrdered, PrecedesOrder
<1>7. \A i \in 1..Len(log') : Precedes(view', log'[i])
  BY <1>1, <1>2, <1>6 DEF HistoryOrdered
<1>8. ASSUME NEW i \in 1..Len(log'), NEW j \in 1..Len(log'), i <= j
      PROVE  Precedes(log'[i], log'[j])
  <2>1. CASE j \in 1..Len(log)
    <3>1. i \in 1..Len(log)
      BY <1>0, <1>8, <2>1
    <3> QED
      BY <1>1, <1>8, <2>1, <3>1 DEF HistoryOrdered
  <2>2. CASE j = Len(log') /\ i \in 1..Len(log)
    BY <1>1, <1>4, <1>5, <2>2
  <2>3. CASE j = Len(log') /\ i = Len(log')
    BY <1>1, <1>6, <2>3
  <2> QED
    BY <1>2, <1>8, <2>1, <2>2, <2>3
<1>9. engine' = IF log' = <<>> THEN view' ELSE log'[Len(log')]
  BY <1>1
<1> QED
  BY <1>1, <1>3, <1>7, <1>8, <1>9 DEF HistoryOrdered

\* The informer receives the next version.
LEMMA DeliverKnown ==
  ASSUME EngineInv, HistoryOrdered, DeliverEngine
  PROVE  HistoryOrdered' /\ Known' \subseteq Known /\ view' \in Known
         /\ \A v \in Known' : Precedes(view', v)
<1>0. log \in Seq(Stored) /\ log # <<>> /\ Len(log) \in Nat /\ Len(log) # 0
      /\ engine' = engine
  BY LenProperties, EmptySeq DEF EngineInv, DeliverEngine
<1>1. /\ view' = log[1] /\ log' = Tail(log)
      /\ Len(log') = Len(log) - 1
      /\ \A i \in 1..Len(log') : log'[i] = log[i + 1]
  BY <1>0, HeadTailProperties DEF DeliverEngine
<1>2. 1 \in 1..Len(log) /\ (\A i \in 1..Len(log') : i + 1 \in 1..Len(log))
  BY <1>0, <1>1
<1>3. Known' \subseteq Known /\ view' \in Known
  BY <1>1, <1>2 DEF Known
<1>4. \A i \in 1..Len(log') : Precedes(view', log'[i])
  BY <1>1, <1>2 DEF HistoryOrdered
<1>5. \A i, j \in 1..Len(log') : i <= j => Precedes(log'[i], log'[j])
  BY <1>0, <1>1, <1>2 DEF HistoryOrdered
<1>6. engine = log[Len(log)]
  BY <1>0 DEF HistoryOrdered
<1>7. engine' = IF log' = <<>> THEN view' ELSE log'[Len(log')]
  <2>1. CASE log' = <<>>
    <3>1. Len(log') = 0
      BY <2>1, EmptySeq
    <3>2. Len(log) = 1
      BY <1>0, <1>1, <3>1
    <3> QED
      BY <1>0, <1>1, <1>6, <2>1, <3>2
  <2>2. CASE log' # <<>>
    <3>1. log' \in Seq(Stored)
      BY <1>0, <1>1, HeadTailProperties
    <3>2. Len(log') \in Nat /\ Len(log') # 0
      BY <2>2, <3>1, LenProperties, EmptySeq
    <3>3. Len(log') \in 1..Len(log') /\ Len(log') + 1 = Len(log)
      BY <1>0, <1>1, <3>2
    <3> QED
      BY <1>0, <1>1, <1>6, <2>2, <3>3
  <2> QED
    BY <2>1, <2>2
<1>8. Precedes(view', view')
  <2>1. view' \in Stored
    BY <1>3, KnownOrdered
  <2> QED
    BY <2>1, PrecedesOrder
<1> QED
  BY <1>3, <1>4, <1>5, <1>7, <1>8 DEF HistoryOrdered, Known

\* The version the API server has is always one that is known, and a known
\* version of the incarnation that lives says no more than the API server's.
LEMMA HeldKnown ==
  ASSUME EngineInv, HistoryOrdered, NEW v \in Known, Held(v),
         engine.exists, engine.uid = v.uid
  PROVE  Held(engine) /\ (v.deleting => engine.deleting)
BY KnownOrdered DEF Precedes, Held

\* Quiet steps.
LEMMA QuietHInv ==
  ASSUME EngineInv, JobInv, HInv, QuietEngine, QuietJob
  PROVE  HInv'
<1>0. engine \in Stored
  BY DEF EngineInv
<1>1. /\ HistoryOrdered' /\ view' = view
      /\ \A v \in Known' : v \in Known \/ v = engine'
      /\ engine'.exists = engine.exists /\ engine'.uid = engine.uid
      /\ engine'.finalizer = engine.finalizer
      /\ Precedes(engine, engine')
  <2>1. CASE UNCHANGED engineVars
    BY <1>0, <2>1, PrecedesOrder DEF engineVars, QuietEngine, HInv, HistoryOrdered, Known
  <2>2. CASE engine.exists /\ Follows(engine') /\ Store(engine')
    <3>1. engine' \in Stored /\ Precedes(engine, engine') /\ view' = view
      BY <1>0, <2>2, FollowsPrecedes DEF Follows, QuietEngine
    <3>2. HistoryOrdered' /\ Known' = Known \cup {engine'}
      BY <2>2, <3>1, StoreKnown DEF HInv
    <3> QED
      BY <2>2, <3>1, <3>2 DEF Follows
  <2> QED
    BY <2>1, <2>2 DEF QuietEngine
<1>2. GoneIsSeen'
  <2> SUFFICES ASSUME NEW v \in Known', Held(v)
               PROVE  (engine'.exists /\ engine'.uid = v.uid) \/ Seen(v)'
    BY DEF GoneIsSeen, Held
  <2>1. CASE v = engine'
    BY <2>1 DEF Held
  <2>2. CASE v \in Known
    <3>1. (engine.exists /\ engine.uid = v.uid) \/ Seen(v)
      BY <2>2 DEF HInv, GoneIsSeen
    <3> QED
      BY <1>1, <3>1 DEF Seen, QuietJob
  <2> QED
    BY <1>1, <2>1, <2>2
<1>3. OneHeld'
  BY <1>1 DEF HInv, OneHeld, Held
<1>4. ReleaseInv'
  <2> SUFFICES ASSUME job'.pc \in Releasing
               PROVE  /\ Held(engine') => engine'.uid = job'.obj.uid
                      /\ \A v \in Known' : Precedes(job'.obj, v)
    BY DEF ReleaseInv, Held, Precedes
  <2>1. job.pc \in Releasing /\ job'.obj = job.obj /\ job.obj \in Stored
    BY DEF QuietJob, Releasing, JobInv, JobType
  <2>2. Held(engine') => engine'.uid = job'.obj.uid
    BY <1>1, <2>1 DEF HInv, ReleaseInv, Held
  <2>3. \A v \in Known : Precedes(job.obj, v)
    BY <2>1 DEF HInv, ReleaseInv
  <2>4. engine' \in Stored
    BY <1>0 DEF QuietEngine, engineVars, Follows
  <2>5. Precedes(job.obj, engine')
    <3>1. Precedes(job.obj, engine)
      BY <2>3, KnownOrdered DEF HInv
    <3> QED
      BY <1>0, <1>1, <2>1, <2>4, <3>1, PrecedesOrder
  <2> QED
    BY <1>1, <2>1, <2>2, <2>3, <2>5
<1>5. FinalizerHeld'
  BY <1>1 DEF HInv, FinalizerHeld, QuietJob, Working, Provisioning
<1> QED
  BY <1>1, <1>2, <1>3, <1>4, <1>5 DEF HInv

\* An Engine is created, or deleted before it got the finalizer.
LEMMA NewVersionHInv ==
  ASSUME EngineInv, JobInv, HInv, UNCHANGED <<view, job>>, NEW v \in Stored, Store(v),
         ~Held(engine), ~Held(v), Precedes(engine, v)
  PROVE  HInv'
<1>1. HistoryOrdered' /\ Known' = Known \cup {v} /\ engine' = v
  BY StoreKnown DEF HInv
<1>2. GoneIsSeen'
  <2> SUFFICES ASSUME NEW u \in Known', Held(u)
               PROVE  (engine'.exists /\ engine'.uid = u.uid) \/ Seen(u)'
    BY DEF GoneIsSeen, Held
  <2>1. u \in Known
    BY <1>1
  <2>2. Seen(u)
    BY <2>1, HeldKnown DEF HInv, GoneIsSeen
  <2> QED
    BY <2>2 DEF Seen
<1>3. OneHeld'
  BY <1>1 DEF OneHeld, Held
<1>4. ReleaseInv'
  <2> SUFFICES ASSUME job'.pc \in Releasing
               PROVE  /\ Held(engine') => engine'.uid = job'.obj.uid
                      /\ \A u \in Known' : Precedes(job'.obj, u)
    BY DEF ReleaseInv, Held, Precedes
  <2>1. job.obj \in Stored /\ engine \in Stored
    BY DEF JobInv, JobType, EngineInv
  <2>2. \A u \in Known : Precedes(job.obj, u)
    BY DEF HInv, ReleaseInv
  <2>3. Precedes(job.obj, v)
    BY <2>1, <2>2, KnownOrdered, PrecedesOrder DEF HInv
  <2> QED
    BY <1>1, <2>2, <2>3
<1>5. FinalizerHeld'
  BY <1>1 DEF HInv, FinalizerHeld, Held
<1> QED
  BY <1>1, <1>2, <1>3, <1>4, <1>5 DEF HInv

\* The informer catches up.
LEMMA DeliverHInv ==
  ASSUME EngineInv, JobInv, HInv, DeliverEngine
  PROVE  HInv'
<1>0. job' = job /\ engine' = engine
  BY DEF DeliverEngine
<1>1. /\ HistoryOrdered' /\ Known' \subseteq Known /\ view' \in Known
      /\ \A v \in Known' : Precedes(view', v)
  BY DeliverKnown DEF HInv
<1>2. GoneIsSeen'
  <2> SUFFICES ASSUME NEW v \in Known', Held(v), ~(engine.exists /\ engine.uid = v.uid)
               PROVE  Seen(v)'
    BY <1>0 DEF GoneIsSeen, Held
  <2>1. Seen(v) /\ v \in Known
    BY <1>1 DEF HInv, GoneIsSeen
  <2>2. view.uid \in Nat /\ view'.uid \in Nat /\ v.uid \in Nat
    BY <1>1, <2>1, KnownOrdered, StoredType DEF HInv
  <2>3. Precedes(view, view') /\ Precedes(view', v)
    BY <1>1, KnownOrdered DEF HInv
  <2>4. view'.uid = v.uid /\ view'.exists /\ view'.deleting
    BY <2>1, <2>2, <2>3 DEF Precedes, Seen, Held
  <2> QED
    BY <1>0, <2>1, <2>4 DEF Seen
<1>3. OneHeld' /\ ReleaseInv' /\ FinalizerHeld'
  BY <1>0, <1>1 DEF HInv, OneHeld, ReleaseInv, FinalizerHeld, Held, Precedes
<1> QED
  BY <1>1, <1>2, <1>3 DEF HInv

\* A reconciliation reads what the informer has.
LEMMA StartHInv ==
  ASSUME EngineInv, JobInv, HInv, Start
  PROVE  HInv'
<1>0. /\ UNCHANGED <<engine, log, view>> /\ job.pc = "idle"
      /\ job'.pc = FirstStep(view) /\ job'.obj = view
  BY DEF Start, engineVars, viewVars, Idle
<1>1. HistoryOrdered' /\ Known' = Known /\ OneHeld'
  BY <1>0 DEF HInv, HistoryOrdered, Known, OneHeld
<1>2. GoneIsSeen'
  BY <1>0, <1>1 DEF HInv, GoneIsSeen, Seen, Held
<1>3. view \in Known /\ \A v \in Known : Precedes(view, v)
  BY KnownOrdered DEF HInv
<1>4. ReleaseInv'
  <2> SUFFICES ASSUME job'.pc \in Releasing
               PROVE  /\ Held(engine) => engine.uid = view.uid
                      /\ \A v \in Known : Precedes(view, v)
    BY <1>0, <1>1 DEF ReleaseInv, Held, Precedes
  <2>1. Held(view)
    BY <1>0 DEF FirstStep, Releasing, Held
  <2> QED
    BY <1>3, <2>1 DEF HInv, OneHeld
<1>5. FinalizerHeld'
  <2> SUFFICES ASSUME job'.pc \in Provisioning \cup {"init", "ruleSet"}
               PROVE  engine.exists /\ engine.finalizer /\ engine.uid = view.uid
    BY <1>0 DEF FinalizerHeld
  <2>1. Held(view) /\ ~view.deleting
    BY <1>0 DEF FirstStep, Provisioning, Held
  <2>2. engine.exists /\ engine.uid = view.uid
    BY <1>3, <2>1 DEF HInv, GoneIsSeen, Seen
  <2> QED
    BY <1>3, <2>1, <2>2, HeldKnown DEF HInv, Held
<1> QED
  BY <1>1, <1>2, <1>4, <1>5 DEF HInv

\* The cleanup is done and takes the finalizer off.
LEMMA UnfinalizeHInv ==
  ASSUME EngineInv, JobInv, HInv, Unfinalize
  PROVE  HInv'
<1>0. /\ view' = view /\ job.pc = "unfinalize" /\ job'.pc = "idle" /\ job' = Idle
      /\ job.obj.exists /\ job.obj.deleting /\ job.obj \in Stored
      /\ engine \in Stored /\ HistoryOrdered
  BY DEF Unfinalize, viewVars, Done, Failed, Idle, JobInv, JobType, EngineInv, HInv
<1>1. CASE UNCHANGED engineVars
  BY <1>0, <1>1, QuietHInv DEF QuietEngine, QuietJob
<1>2. Held(engine) => engine.uid = job.obj.uid
  BY <1>0 DEF HInv, ReleaseInv, Releasing
<1>3. \A v \in Known : Precedes(job.obj, v)
  BY <1>0 DEF HInv, ReleaseInv, Releasing
<1>4. CASE engine.exists /\ ~engine.deleting /\ engine.finalizer
  <2>1. engine.uid = job.obj.uid /\ Precedes(job.obj, engine)
    BY <1>0, <1>2, <1>3, <1>4, KnownOrdered DEF Held
  <2> QED
    BY <1>0, <1>4, <2>1 DEF Precedes
<1>5. CASE engine.exists /\ engine.deleting /\ Store(Gone)
  <2>1. Gone \in Stored /\ ~Gone.exists /\ Gone.uid = engine.uid
    BY <1>0, GoneStored
  <2>2. Precedes(engine, Gone)
    BY <1>0, <2>1, StoredType DEF Precedes
  <2>3. HistoryOrdered' /\ Known' = Known \cup {Gone} /\ engine' = Gone
    BY <1>0, <1>5, <2>1, <2>2, StoreKnown
  <2>4. engine.uid = job.obj.uid
    BY <1>0, <1>2, <1>5 DEF Held, Stored
  <2>5. GoneIsSeen'
    <3> SUFFICES ASSUME NEW v \in Known', Held(v) PROVE Seen(v)'
      BY DEF GoneIsSeen, Held
    <3>1. v \in Known
      BY <2>1, <2>3 DEF Held
    <3>2. v.uid = engine.uid \/ Seen(v)
      BY <3>1 DEF HInv, GoneIsSeen
    <3>3. CASE v.uid = engine.uid
      <4>1. /\ view \in Known /\ view \in Stored /\ v \in Stored
            /\ Precedes(job.obj, view) /\ Precedes(view, v)
        BY <1>0, <1>3, <3>1, KnownOrdered
      <4>2. view.uid \in Nat /\ v.uid \in Nat /\ job.obj.uid \in Nat
        BY <1>0, <4>1, StoredType
      <4>3. view.uid = v.uid /\ view.exists /\ view.deleting
        BY <1>0, <2>4, <3>3, <4>1, <4>2 DEF Precedes, Held
      <4> QED
        BY <1>0, <4>3 DEF Seen
    <3>4. CASE Seen(v)
      BY <1>0, <3>4 DEF Seen
    <3> QED
      BY <3>2, <3>3, <3>4
  <2>6. OneHeld' /\ ReleaseInv' /\ FinalizerHeld'
    BY <1>0, <2>1, <2>3 DEF OneHeld, ReleaseInv, Releasing, FinalizerHeld, Provisioning, Held
  <2> QED
    BY <2>3, <2>5, <2>6 DEF HInv
<1> QED
  BY <1>1, <1>4, <1>5 DEF Unfinalize, CallFails

\* The finalizer is put on.
LEMMA FinalizeHInv ==
  ASSUME EngineInv, JobInv, HInv, Finalize
  PROVE  HInv'
<1>0. /\ view' = view /\ job.pc = "finalize" /\ job'.pc = "idle" /\ ~job.obj.deleting
      /\ engine \in Stored /\ HistoryOrdered
  BY DEF Finalize, viewVars, Failed, Idle, JobInv, EngineInv, HInv
<1>1. CASE UNCHANGED engineVars
  BY <1>0, <1>1, QuietHInv DEF QuietEngine, QuietJob
<1>2. CASE engine.exists /\ ~engine.finalizer /\ Store([engine EXCEPT !.finalizer = TRUE])
  <2> DEFINE v == [engine EXCEPT !.finalizer = TRUE]
  <2>1. /\ v \in Stored /\ v.exists /\ v.finalizer /\ v.uid = engine.uid
        /\ v.deleting = engine.deleting
    BY <1>0, <1>2, FinalizerStored DEF Stored, Versions
  <2>2. Store(v)
    BY <1>2
  <2> HIDE DEF v
  <2>3. Precedes(engine, v)
    BY <1>0, <1>2, <2>1, StoredType DEF Precedes
  <2>4. HistoryOrdered' /\ Known' = Known \cup {v} /\ engine' = v
    BY <1>0, <2>1, <2>2, <2>3, StoreKnown
  <2>5. \A u \in Known : Held(u) => u.uid = engine.uid
    BY <1>0 DEF HInv, GoneIsSeen, Seen
  <2>6. GoneIsSeen' /\ OneHeld'
    BY <2>1, <2>4, <2>5 DEF GoneIsSeen, OneHeld, Held
  <2>7. ReleaseInv' /\ FinalizerHeld'
    BY <1>0 DEF ReleaseInv, Releasing, FinalizerHeld, Provisioning
  <2> QED
    BY <2>4, <2>6, <2>7 DEF HInv
<1> QED
  BY <1>1, <1>2 DEF Finalize, CallFails

\* The first status: the reconciliation goes on with what the API server has.
LEMMA InitializeHInv ==
  ASSUME EngineInv, JobInv, HInv, InitializeStatus
  PROVE  HInv'
<1>0. QuietEngine /\ job.pc = "init" /\ ~job.obj.deleting /\ engine \in Stored
  BY InitializeQuiet DEF InitializeStatus, JobInv, EngineInv
<1>1. CASE job' = Idle
  BY <1>0, <1>1, QuietHInv DEF QuietJob, Idle
<1>2. CASE job'.pc = "ruleSet" /\ job'.obj = engine'
  <2>1. engine.exists /\ engine.finalizer /\ engine.uid = job.obj.uid
    BY <1>0 DEF HInv, FinalizerHeld
  <2>2. /\ HistoryOrdered' /\ Known' \subseteq Known \cup {engine'}
        /\ engine'.exists /\ engine'.finalizer /\ engine'.uid = engine.uid
    <3>1. CASE UNCHANGED engineVars
      BY <1>0, <2>1, <3>1 DEF HInv, HistoryOrdered, Known, QuietEngine, engineVars
    <3>2. CASE Follows(engine') /\ Store(engine')
      <4>1. engine' \in Stored /\ Precedes(engine, engine') /\ view' = view
        BY <1>0, <2>1, <3>2, FollowsPrecedes DEF Follows, QuietEngine
      <4>2. HistoryOrdered' /\ Known' = Known \cup {engine'}
        BY <3>2, <4>1, StoreKnown DEF HInv
      <4> QED
        BY <2>1, <3>2, <4>1, <4>2 DEF Follows
    <3> QED
      BY <1>0, <3>1, <3>2 DEF QuietEngine
  <2>3. \A u \in Known : Held(u) => u.uid = engine.uid
    BY <1>0 DEF HInv, GoneIsSeen, Seen
  <2>4. GoneIsSeen' /\ OneHeld'
    BY <2>2, <2>3 DEF GoneIsSeen, OneHeld, Held
  <2>5. ReleaseInv' /\ FinalizerHeld'
    BY <1>2, <2>2 DEF ReleaseInv, Releasing, FinalizerHeld
  <2> QED
    BY <2>2, <2>4, <2>5 DEF HInv
<1>3. job' = Idle \/ (job'.pc = "ruleSet" /\ job'.obj = engine')
  BY DEF InitializeStatus, Failed, JobInv, JobType
<1> QED
  BY <1>1, <1>2, <1>3

\* The operator comes back and knows only what there is.
LEMMA RestartHInv ==
  ASSUME EngineInv, Restart
  PROVE  HInv'
<1>1. engine' = engine /\ view' = engine /\ log' = <<>> /\ job'.pc = "idle"
  BY DEF Restart, Idle
<1>2. Len(log') = 0
  BY <1>1, EmptySeq
<1>3. Known' = {engine}
  BY <1>1, <1>2 DEF Known
<1>4. HistoryOrdered'
  BY <1>1, <1>2 DEF HistoryOrdered
<1>5. GoneIsSeen' /\ OneHeld'
  BY <1>1, <1>3 DEF GoneIsSeen, OneHeld, Held
<1>6. ReleaseInv' /\ FinalizerHeld'
  BY <1>1 DEF ReleaseInv, Releasing, FinalizerHeld, Provisioning
<1> QED
  BY <1>4, <1>5, <1>6 DEF HInv

\* Every step keeps the invariant.
LEMMA NextHInv == TInv /\ HInv /\ [Next]_vars => HInv'
<1> SUFFICES ASSUME TInv, HInv, [Next]_vars PROVE HInv'
  OBVIOUS
<1>0. EngineInv /\ JobInv /\ Kinds /\ engine \in Stored
  BY StepKinds DEF TInv, EngineInv
<1>1. ASSUME NEW spec \in Specs, CreateEngine(spec) PROVE HInv'
  <2> DEFINE v == Created(spec)
  <2>1. /\ UNCHANGED <<view, job>> /\ Store(v) /\ ~engine.exists
        /\ engine.uid < MaxIncarnations
    BY <1>1 DEF CreateEngine, Edit, viewVars
  <2>2. v \in Stored /\ ~v.finalizer /\ v.uid = engine.uid + 1
    BY <1>0, <2>1, CreatedStored
  <2> HIDE DEF v
  <2>3. Precedes(engine, v)
    BY <1>0, <2>2, StoredType DEF Precedes
  <2> QED
    BY <1>0, <2>1, <2>2, <2>3, NewVersionHInv DEF Held
<1>2. CASE DeleteEngine /\ ~engine.finalizer
  <2>1. UNCHANGED <<view, job>> /\ Store(Gone)
    BY <1>2 DEF DeleteEngine, Edit, viewVars
  <2>2. Gone \in Stored /\ ~Gone.exists /\ Gone.uid = engine.uid
    BY <1>0, GoneStored
  <2>3. Precedes(engine, Gone)
    BY <1>0, <2>2, StoredType DEF Precedes
  <2> QED
    BY <1>0, <1>2, <2>1, <2>2, <2>3, NewVersionHInv DEF Held
<1> QED
  BY <1>0, <1>1, <1>2, QuietHInv, DeliverHInv, StartHInv, UnfinalizeHInv, FinalizeHInv,
     InitializeHInv, RestartHInv DEF Kinds

\* At the start nothing is known of any Engine.
LEMMA InitHInv == Init => HInv
<1> SUFFICES ASSUME Init PROVE HInv
  OBVIOUS
<1>1. engine = Missing /\ view = Missing /\ log = <<>> /\ job.pc = "idle" /\ ~Missing.exists
  BY MissingStored DEF Init, Idle
<1>2. Len(log) = 0
  BY <1>1, EmptySeq
<1>3. Known = {Missing}
  BY <1>1, <1>2 DEF Known
<1>4. HistoryOrdered
  BY <1>1, <1>2 DEF HistoryOrdered
<1> QED
  BY <1>1, <1>3, <1>4 DEF HInv, GoneIsSeen, OneHeld, ReleaseInv, Releasing, FinalizerHeld,
                          Provisioning, Held

\* The invariant is one.
LEMMA HInvHolds == Spec => []HInv
BY InitHInv, NextHInv, TInvHolds, PTL DEF Spec

\* An Engine for which a reconciliation may still create objects carries the
\* finalizer, and is the one that was read, however far the informers lag and
\* whatever users, faults and restarts do in between: its objects cannot be
\* left behind without a cleanup (Reconcile, ensureNetworkPolicyFinalizer,
\* handleNetworkPolicyDeletion).
THEOREM FinalizerIsHeld == Spec => []FinalizerHeld
<1>1. HInv => FinalizerHeld
  BY DEF HInv
<1> QED
  BY <1>1, HInvHolds, PTL

-----------------------------------------------------------------------------
(* The policy comes before the plugin.                                     *)

\* The policies of an Engine under reconciliation.
LEMMA NextPolicyInv == TInv /\ PolicyInv /\ [Next]_vars => PolicyInv'
<1> SUFFICES ASSUME TInv, PolicyInv, [Next]_vars,
                    job'.pc \in {"account", "token", "plugin", "ready"}, drifts' = 0
             PROVE  \E p \in policies' : p.target = job'.obj.target
  BY DEF PolicyInv
<1>0. job \in JobType /\ drifts \in Nat
  BY DEF TInv, JobInv, ObjectsInv
<1>I. ASSUME job'.pc = "idle" PROVE FALSE
  BY <1>I
<1>F. ASSUME policies' = policies, drifts' = drifts, job'.obj = job.obj,
             job.pc \in {"account", "token", "plugin", "ready"}
      PROVE  \E p \in policies' : p.target = job'.obj.target
  BY <1>F DEF PolicyInv
<1>1. CASE Users
  <2>1. ~Drift
    BY <1>0 DEF Drift
  <2>2. Edit /\ UNCHANGED <<policies, job, drifts>>
    BY <1>1, <2>1 DEF Users, CreateEngine, ChangeEngine, DeleteEngine, ChangeRuleSet,
                      DeletePolicy, DeletePlugin, Edit
  <2> QED
    BY <1>F, <2>2
<1>2. CASE Deliver \/ DeliverTarget \/ CollectGarbage \/ Tick \/ UNCHANGED vars
  <2>1. UNCHANGED <<policies, job, drifts>>
    BY <1>2 DEF Deliver, DeliverEngine, DeliverAccounts, DeliverEvent, DeliverRuleSet,
                DeliverPolicy, DeliverTarget, CollectGarbage, Tick, vars, bounds
  <2> QED
    BY <1>F, <2>1
<1>3. CASE Restart \/ Unfinalize \/ Finalize \/ PatchReady
  BY <1>3, <1>I DEF Restart, Unfinalize, Finalize, PatchReady, Done, Failed, Idle
<1>4. CASE Start
  <2>1. job'.pc = FirstStep(view)
    BY <1>4 DEF Start, Idle
  <2> QED
    BY <2>1 DEF FirstStep
<1>5. CASE StartFails
  BY <1>5, <1>I DEF StartFails
<1>6. CASE Cleanup
  <2>1. job'.pc \in {"idle", "unfinalize"}
    BY <1>0, <1>6 DEF Cleanup, Goto, Done, Failed, Idle, JobType
  <2> QED
    BY <2>1
<1>D. ASSUME NEW reason, NEW retriable, Degrade(reason, retriable) PROVE FALSE
  BY <1>D, <1>I DEF Degrade, Failed, Done, Idle
<1>S. ASSUME NEW label, NEW reason, StepFails(label, reason) PROVE FALSE
  BY <1>S, <1>I DEF StepFails, Failed, Idle
<1>7. CASE InitializeStatus \/ CheckRuleSet
  <2>1. \/ job' = Idle
        \/ job' = [job EXCEPT !.pc = "ruleSet", !.obj = engine']
        \/ Goto("policy")
    BY <1>7, <1>D DEF InitializeStatus, CheckRuleSet, Failed
  <2>2. CASE job' = Idle
    BY <1>I, <2>2 DEF Idle
  <2>3. ASSUME NEW v, job' = [job EXCEPT !.pc = "ruleSet", !.obj = v] PROVE FALSE
    BY <1>0, <2>3 DEF JobType
  <2>4. CASE Goto("policy")
    BY <1>0, <2>4 DEF Goto, JobType
  <2> QED
    BY <2>1, <2>2, <2>3, <2>4
<1>8. CASE ApplyPolicy
  <2>1. Goto("account")
    BY <1>8, <1>D, <1>S DEF ApplyPolicy
  <2>2. job'.obj = job.obj
    BY <1>0, <2>1 DEF Goto, JobType
  <2>3. ASSUME NEW id, policies' = policies \cup {[id |-> id, target |-> job.obj.target]}
        PROVE  \E q \in policies' : q.target = job'.obj.target
    <3>1. [id |-> id, target |-> job.obj.target] \in policies'
      BY <2>3
    <3> QED
      BY <2>2, <3>1
  <2>4. ASSUME NEW p \in policies, policies' = (policies \ {p}) \cup {UpdatedPolicy(p)}
        PROVE  \E q \in policies' : q.target = job'.obj.target
    <3>0. p \in [id : Nat, target : Targets]
      BY DEF TInv, ObjectsInv
    <3>1. UpdatedPolicy(p).target = job.obj.target
      BY <3>0 DEF UpdatedPolicy
    <3> QED
      BY <2>2, <2>4, <3>1
  <2> QED
    BY <1>8, <1>D, <1>S, <2>3, <2>4 DEF ApplyPolicy
<1>9. CASE EnsureAccount
  <2>1. ASSUME NEW id, job' = [job EXCEPT !.pc = "token", !.account = id]
        PROVE  job'.obj = job.obj
    BY <1>0, <2>1 DEF JobType
  <2>2. job.pc = "account" /\ UNCHANGED <<policies, drifts>> /\ job'.obj = job.obj
    BY <1>9, <1>S, <2>1 DEF EnsureAccount
  <2> QED
    BY <1>F, <2>2
<1>10. CASE EnsureToken
  <2>1. job.pc = "token" /\ UNCHANGED <<policies, drifts>> /\ job'.obj = job.obj
    BY <1>0, <1>10, <1>D, <1>S DEF EnsureToken, JobType
  <2> QED
    BY <1>F, <2>1
<1>11. CASE ApplyPlugin
  <2>1. job.pc = "plugin" /\ UNCHANGED <<policies, drifts>> /\ job'.obj = job.obj
    BY <1>0, <1>11, <1>S DEF ApplyPlugin, Goto, JobType
  <2> QED
    BY <1>F, <2>1
<1> QED
  BY <1>1, <1>2, <1>3, <1>4, <1>5, <1>6, <1>7, <1>8, <1>9, <1>10, <1>11 DEF Next, Work

\* Whenever a reconciliation changes the plugin, a policy for the Gateway the
\* plugin runs in is there, unless somebody else took it away, for any order
\* of edits, deliveries, faults and restarts (provisionWasmDriver).
THEOREM PolicyComesFirst == Spec => PolicyBeforePlugin
<1> DEFINE A == job' # job /\ plugin' # plugin /\ plugin' # NoPlugin /\ drifts = 0 =>
                  \E p \in policies : p.target = plugin'.target
<1>1. Init => PolicyInv
  BY DEF Init, Idle, PolicyInv
<1>2. TInv /\ PolicyInv /\ [Next]_vars => [A]_vars
  <2> SUFFICES ASSUME TInv, PolicyInv, Next, job' # job, plugin' # plugin,
                      plugin' # NoPlugin, drifts = 0
               PROVE  \E p \in policies : p.target = plugin'.target
    OBVIOUS
  <2>1. ApplyPlugin
    BY PluginChanges DEF Tick
  <2>2. job.pc = "plugin" /\ plugin' = buildWasmPlugin
    BY <2>1 DEF ApplyPlugin
  <2> QED
    BY <2>2 DEF PolicyInv, buildWasmPlugin
<1>3. Spec => [][A]_vars
  BY <1>1, <1>2, NextPolicyInv, TInvHolds, PTL DEF Spec
<1> QED
  BY <1>3 DEF PolicyBeforePlugin

-----------------------------------------------------------------------------
(* The inductive invariant, part three: an Engine that can be provisioned  *)
(* is, or something will wake the reconciler up that shows it what is      *)
(* missing.                                                                *)

\* The spec as it stands.  A generation names one.
Current(v) == v.exists /\ engine.exists /\ v.gen = engine.gen

Dated(v) ==
  /\ v.gen <= engine.gen
  /\ Current(v) =>
       /\ v.uid = engine.uid /\ v.deleting = engine.deleting
       /\ v.ruleSet = engine.ruleSet /\ v.target = engine.target

GenInv ==
  /\ \A v \in Known : Dated(v)
  /\ job.pc # "idle" => Dated(job.obj)

\* The informer's change of the spec is yet to come or has woken the
\* reconciler up.
Awake == wake = 0 \/ ~Current(view)

\* A reconciliation of an older spec will not be the last.
StaleInv == engine.exists /\ job.pc # "idle" /\ ~Current(job.obj) => Awake

\* There will be another reconciliation.
Due == Awake \/ event \/ policyView # policies

\* There is nothing before the first Engine of a name, and for as long as
\* that one lives the ServiceAccounts of all tokens do.
FirstInv ==
  /\ engine.uid = 0 =>
       /\ accounts = {} /\ plugin = NoPlugin
       /\ \A r \in RuleSetNames : tokenStore[r] = NoToken
  /\ engine.exists /\ engine.uid = 1 =>
       /\ \A a \in accounts : a.uid = 1
       /\ \A r \in RuleSetNames :
            tokenStore[r] # NoToken => tokenStore[r].account \in Ids(accounts)
       /\ plugin # NoPlugin => plugin.token.account \in Ids(accounts)
       /\ job.pc \in {"plugin", "ready"} => job.token.account \in Ids(accounts)

\* An Engine that can be provisioned, by what the informers say.
Expected ==
  /\ engine.exists /\ engine.uid = 1 /\ ~engine.deleting
  /\ ruleSetView[engine.ruleSet] = "fine"

Permitted == \E p \in policies : p.target = engine.target

\* It is, and the wake-up comes before the token is too old.
Resting ==
  /\ Runs
  /\ wake \in 1..RenewAt
  /\ wake + plugin.token.age <= RenewAt

RestInv ==
  Expected /\ ~Due =>
    /\ job.pc = "idle" => Resting
    /\ job.pc \in {"account", "token", "plugin"} => Permitted
    /\ job.pc = "ready" => Runs /\ plugin.token = job.token

RuleSetViewInv == ruleSetView \in [RuleSetNames -> {"absent", "fine", "degraded"}]

PInv == RuleSetViewInv /\ GenInv /\ StaleInv /\ FirstInv /\ RestInv

\* The Engine in the API server only gets newer.
Advance ==
  /\ engine.uid <= engine'.uid /\ engine.gen <= engine'.gen
  /\ engine'.exists /\ engine'.uid = engine.uid => engine.exists
  /\ engine'.exists /\ engine'.gen = engine.gen =>
       /\ engine.exists /\ engine'.uid = engine.uid /\ engine'.deleting = engine.deleting
       /\ engine'.ruleSet = engine.ruleSet /\ engine'.target = engine.target

\* What a step adds to the versions that may be read, and what a
\* reconciliation has read.
Reading ==
  /\ \A v \in Known' : v \in Known \/ v = engine'
  /\ \/ view' = view
     \/ DeliverEngine
     \/ Restart
  /\ job'.pc # "idle" =>
       \/ job.pc # "idle" /\ job'.obj = job.obj
       \/ Start /\ job'.obj = view
       \/ job'.obj = engine'

\* A new version is the only one added.
LEMMA StoreReading ==
  ASSUME EngineInv, NEW v \in Stored, Store(v), view' = view
  PROVE  (\A u \in Known' : u \in Known \/ u = engine') /\ engine' = v
<1>0. log \in Seq(Stored) /\ Len(log) \in Nat
  BY LenProperties DEF EngineInv
<1>1. /\ engine' = v /\ log' = Append(log, v)
      /\ Len(log') = Len(log) + 1
      /\ \A i \in 1..Len(log) : log'[i] = log[i]
      /\ log'[Len(log) + 1] = v
  BY <1>0, AppendProperties DEF Store
<1>2. 1..Len(log') = (1..Len(log)) \cup {Len(log')}
  BY <1>0, <1>1
<1> QED
  BY <1>1, <1>2 DEF Known

\* Every step advances the Engine, if it changes it, and reads what is known.
LEMMA StepAdvances ==
  ASSUME EngineInv, JobInv, HInv, Kinds
  PROVE  Advance /\ Reading
<1>0. /\ engine \in Stored /\ engine.gen \in Nat /\ engine.uid \in Nat
      /\ engine.uid <= engine.uid /\ engine.gen <= engine.gen
  BY StoredType DEF EngineInv
<1>F. ASSUME UNCHANGED <<engine, log, view>> PROVE Advance /\ (\A v \in Known' : v \in Known)
  BY <1>0, <1>F DEF Advance, Known
<1>J. ASSUME UNCHANGED job
      PROVE  job'.pc # "idle" => job.pc # "idle" /\ job'.obj = job.obj
  BY <1>J
<1>Q. ASSUME QuietEngine
      PROVE  Advance /\ (\A v \in Known' : v \in Known \/ v = engine') /\ view' = view
  <2>1. CASE UNCHANGED engineVars
    BY <1>F, <1>Q, <2>1 DEF QuietEngine, engineVars
  <2>2. CASE engine.exists /\ Follows(engine') /\ Store(engine')
    <3>1. engine' \in Stored /\ view' = view
      BY <1>Q, <2>2 DEF Follows, QuietEngine
    <3> QED
      BY <1>0, <2>2, <3>1, StoreReading DEF Advance, Follows
  <2> QED
    BY <1>Q, <2>1, <2>2 DEF QuietEngine
<1>1. ASSUME NEW spec \in Specs, CreateEngine(spec) PROVE Advance /\ Reading
  <2> DEFINE v == Created(spec)
  <2>1. UNCHANGED <<view, job>> /\ Store(v) /\ engine.uid < MaxIncarnations
    BY <1>1 DEF CreateEngine, Edit, viewVars
  <2>2. v \in Stored /\ v.uid = engine.uid + 1 /\ v.gen = engine.gen + 1
    BY <1>0, <2>1, CreatedStored DEF Created
  <2> HIDE DEF v
  <2>3. (\A u \in Known' : u \in Known \/ u = engine') /\ engine' = v
    BY <2>1, <2>2, StoreReading
  <2>4. engine.uid # v.uid /\ engine.gen # v.gen /\ engine.uid <= v.uid /\ engine.gen <= v.gen
    BY <1>0, <2>2
  <2>5. Advance
    BY <2>3, <2>4 DEF Advance
  <2> QED
    BY <1>J, <2>1, <2>3, <2>5 DEF Reading
<1>G. ASSUME Store(Gone), view' = view
      PROVE  Advance /\ (\A v \in Known' : v \in Known \/ v = engine')
  <2>1. Gone \in Stored /\ ~Gone.exists /\ Gone.uid = engine.uid
    BY <1>0, GoneStored
  <2>2. Gone.gen = engine.gen
    BY <1>0 DEF Gone, Missing
  <2> QED
    BY <1>0, <1>G, <2>1, <2>2, StoreReading DEF Advance
<1>2. CASE DeleteEngine /\ ~engine.finalizer
  <2>1. UNCHANGED <<view, job>> /\ Store(Gone)
    BY <1>2 DEF DeleteEngine, Edit, viewVars
  <2> QED
    BY <1>G, <1>J, <2>1 DEF Reading
<1>3. CASE DeliverEngine
  <2>1. UNCHANGED <<engine, job>> /\ Known' \subseteq Known
    BY <1>3, DeliverKnown DEF DeliverEngine, HInv
  <2> QED
    BY <1>0, <1>3, <1>J, <2>1 DEF Reading, Advance
<1>4. CASE Start
  <2>1. UNCHANGED <<engine, log, view>> /\ job'.obj = view
    BY <1>4 DEF Start, engineVars, viewVars, Idle
  <2> QED
    BY <1>4, <1>F, <2>1 DEF Reading
<1>5. CASE Unfinalize
  <2>1. view' = view /\ job'.pc = "idle"
    BY <1>5 DEF Unfinalize, viewVars, Done, Failed, Idle
  <2>2. CASE UNCHANGED engineVars
    BY <1>F, <2>1, <2>2 DEF Reading, engineVars
  <2>3. CASE Store(Gone)
    BY <1>G, <2>1, <2>3 DEF Reading
  <2>4. CASE engine.exists /\ ~engine.deleting /\ Store([engine EXCEPT !.finalizer = FALSE])
    <3> DEFINE v == [engine EXCEPT !.finalizer = FALSE]
    <3>1. /\ v \in Stored /\ v.exists = engine.exists /\ v.uid = engine.uid
          /\ v.gen = engine.gen /\ v.ruleSet = engine.ruleSet /\ v.target = engine.target
          /\ v.deleting = engine.deleting
      BY <1>0, <2>4, FinalizerStored DEF Stored, Versions
    <3>2. Store(v)
      BY <2>4
    <3> HIDE DEF v
    <3> QED
      BY <1>0, <2>1, <3>1, <3>2, StoreReading DEF Reading, Advance
  <2> QED
    BY <1>5, <2>2, <2>3, <2>4 DEF Unfinalize, CallFails
<1>6. CASE Finalize
  <2>1. view' = view /\ job'.pc = "idle"
    BY <1>6 DEF Finalize, viewVars, Failed, Idle
  <2>2. CASE UNCHANGED engineVars
    BY <1>F, <2>1, <2>2 DEF Reading, engineVars
  <2>3. CASE engine.exists /\ Store([engine EXCEPT !.finalizer = TRUE])
    <3> DEFINE v == [engine EXCEPT !.finalizer = TRUE]
    <3>1. /\ v \in Stored /\ v.exists = engine.exists /\ v.uid = engine.uid
          /\ v.gen = engine.gen /\ v.ruleSet = engine.ruleSet /\ v.target = engine.target
          /\ v.deleting = engine.deleting
      BY <1>0, <2>3, FinalizerStored DEF Stored, Versions
    <3>2. Store(v)
      BY <2>3
    <3> HIDE DEF v
    <3> QED
      BY <1>0, <2>1, <3>1, <3>2, StoreReading DEF Reading, Advance
  <2> QED
    BY <1>6, <2>2, <2>3 DEF Finalize, CallFails
<1>7. CASE InitializeStatus
  <2>1. job' = Idle \/ job'.obj = engine'
    BY <1>7 DEF InitializeStatus, Failed, JobInv, JobType
  <2> QED
    BY <1>7, <1>Q, <2>1, InitializeQuiet DEF Reading, Idle
<1>8. CASE Restart
  <2>1. engine' = engine /\ view' = engine /\ log' = <<>> /\ job'.pc = "idle"
    BY <1>8 DEF Restart, Idle
  <2>2. Len(log') = 0
    BY <2>1, EmptySeq
  <2>3. Known' = {engine}
    BY <2>1, <2>2 DEF Known
  <2> QED
    BY <1>0, <1>8, <2>1, <2>3 DEF Reading, Advance
<1>9. CASE QuietEngine /\ QuietJob
  BY <1>9, <1>Q DEF Reading, QuietJob
<1> QED
  BY <1>1, <1>2, <1>3, <1>4, <1>5, <1>6, <1>7, <1>8, <1>9 DEF Kinds

\* What is current after a step was so before, with the same spec.
LEMMA CurrentBefore ==
  ASSUME Advance, engine \in Stored, engine' \in Stored, NEW v \in Stored, Dated(v)
  PROVE  /\ Dated(v)'
         /\ Current(v)' => Current(v) /\ engine'.gen = engine.gen
<1>1. v.gen \in Nat /\ engine.gen \in Nat /\ engine'.gen \in Nat
  BY StoredType
<1>2. Current(v)' => Current(v) /\ engine'.gen = engine.gen
  BY <1>1 DEF Advance, Current, Dated
<1>3. v.gen <= engine'.gen
  BY <1>1 DEF Advance, Dated
<1> QED
  BY <1>2, <1>3 DEF Dated, Current, Advance

\* Generations keep naming specs.
LEMMA NextGenInv ==
  ASSUME EngineInv, EngineInv', JobInv, HInv, GenInv, Advance, Reading
  PROVE  GenInv'
<1>0. engine \in Stored /\ engine' \in Stored /\ engine'.gen \in Nat
      /\ (\A v \in Known : v \in Stored) /\ view \in Known /\ job.obj \in Stored
  BY KnownOrdered, StoredType DEF EngineInv, HInv, JobInv, JobType
<1>1. Dated(engine)'
  BY <1>0 DEF Dated, Current
<1>2. \A v \in Known : Dated(v)'
  BY <1>0, CurrentBefore DEF GenInv
<1>3. ASSUME NEW v, v = job.obj, job.pc # "idle" PROVE Dated(v)'
  <2>1. v \in Stored /\ Dated(v)
    BY <1>0, <1>3 DEF GenInv
  <2> QED
    BY <1>0, <2>1, CurrentBefore
<1>4. \A v \in Known' : Dated(v)'
  BY <1>1, <1>2 DEF Reading, Dated, Current
<1>5. job'.pc # "idle" => Dated(job.obj)'
  BY <1>0, <1>1, <1>2, <1>3 DEF Reading, Dated, Current
<1> QED
  BY <1>4, <1>5 DEF GenInv

\* A step that leaves a reconciliation under way does not take its wake-up
\* away.
LEMMA WakeKept ==
  ASSUME [Next]_vars, job.pc # "idle", job'.pc # "idle"
  PROVE  wake' \in {wake, 0}
<1>D. ASSUME NEW reason, NEW retriable, Degrade(reason, retriable) PROVE wake' \in {wake, 0}
  BY <1>D DEF Degrade, Failed, Done
<1>S. ASSUME NEW label, NEW reason, StepFails(label, reason) PROVE wake' \in {wake, 0}
  BY <1>S DEF StepFails, Failed
<1>1. CASE Users
  BY <1>1 DEF Users, CreateEngine, ChangeEngine, DeleteEngine, ChangeRuleSet, DeletePolicy,
              DeletePlugin, Edit, Drift
<1>2. CASE Deliver \/ DeliverTarget \/ CollectGarbage
  BY <1>2 DEF Deliver, DeliverEngine, DeliverAccounts, DeliverEvent, DeliverRuleSet,
              DeliverPolicy, DeliverTarget, CollectGarbage, Enqueue
<1>3. CASE Work
  <2>1. CASE Start
    BY <2>1 DEF Start
  <2>2. CASE PatchReady
    BY <2>2 DEF PatchReady, Failed, Idle
  <2>3. CASE StartFails \/ Cleanup \/ Unfinalize \/ Finalize \/ InitializeStatus
    BY <2>3 DEF StartFails, Cleanup, Unfinalize, Finalize, InitializeStatus, Done, Failed, Goto
  <2>4. CASE CheckRuleSet \/ ApplyPolicy \/ EnsureAccount \/ EnsureToken \/ ApplyPlugin
    BY <1>D, <1>S, <2>4 DEF CheckRuleSet, ApplyPolicy, EnsureAccount, EnsureToken,
                            ApplyPlugin, Failed, Goto
  <2> QED
    BY <1>3, <2>1, <2>2, <2>3, <2>4 DEF Work
<1>4. CASE Restart \/ Tick
  BY <1>4 DEF Restart, Tick, Settled, Idle
<1> QED
  BY <1>1, <1>2, <1>3, <1>4 DEF Next, vars

\* The informer's copy becomes current only with a wake-up.
LEMMA DeliverWakes ==
  ASSUME EngineInv, HInv, GenInv, DeliverEngine, Current(view)'
  PROVE  wake' = 0 \/ (wake' = wake /\ Current(view))
<1>1. engine' = engine
  BY DEF DeliverEngine
<1>2. view'.exists /\ engine.exists /\ view'.gen = engine.gen
  BY <1>1 DEF Current
<1>3. CASE view.exists = view'.exists /\ view.gen = view'.gen
  BY <1>2, <1>3 DEF DeliverEngine, Current, Enqueue
<1>4. CASE ~(view.exists = view'.exists /\ view.gen = view'.gen)
  BY <1>4 DEF DeliverEngine, Enqueue
<1> QED
  BY <1>3, <1>4

\* A reconciliation of an older spec is not the last.
LEMMA NextStaleInv ==
  ASSUME TInv, TInv', HInv, GenInv, StaleInv, [Next]_vars, Advance, Reading
  PROVE  StaleInv'
<1> SUFFICES ASSUME engine'.exists, job'.pc # "idle", ~Current(job.obj)', wake' # 0,
                    Current(view)'
             PROVE  FALSE
  BY DEF StaleInv, Awake
<1>0. /\ engine \in Stored /\ engine' \in Stored /\ view \in Stored /\ view \in Known
      /\ job.obj \in Stored /\ EngineInv
  BY KnownOrdered DEF TInv, EngineInv, HInv, JobInv, JobType
<1>1. CASE job'.obj = engine'
  BY <1>1 DEF Current
<1>2. CASE Start /\ job'.obj = view
  <2>1. view' = view
    BY <1>2 DEF Start, viewVars
  <2> QED
    BY <1>2, <2>1 DEF Current
<1>3. CASE job.pc # "idle" /\ job'.obj = job.obj
  <2>1. wake' = wake /\ wake # 0
    BY <1>3, WakeKept
  <2>2. Current(view) /\ engine'.gen = engine.gen
    <3>1. CASE view' = view
      <4>1. ASSUME NEW v, v = view PROVE Current(v) /\ engine'.gen = engine.gen
        <5>1. v \in Stored /\ Dated(v) /\ Current(v)'
          BY <1>0, <3>1, <4>1 DEF GenInv, Current
        <5> QED
          BY <1>0, <5>1, CurrentBefore
      <4> QED
        BY <4>1
    <3>2. CASE DeliverEngine
      BY <1>0, <2>1, <3>2, DeliverWakes DEF DeliverEngine
    <3>3. CASE Restart
      BY <3>3 DEF Restart, Idle
    <3> QED
      BY <3>1, <3>2, <3>3 DEF Reading
  <2>3. Current(job.obj)
    BY <1>3, <2>1, <2>2 DEF StaleInv, Awake, Current
  <2> QED
    BY <1>3, <2>2, <2>3 DEF Current
<1> QED
  BY <1>1, <1>2, <1>3 DEF Reading

\* ServiceAccounts come from one step of a reconciliation and go to the
\* garbage collector.
LEMMA AccountChanges ==
  ASSUME [Next]_vars
  PROVE  UNCHANGED accounts \/ EnsureAccount \/ CollectGarbage
<1>1. CASE Users
  BY <1>1 DEF Users, CreateEngine, ChangeEngine, DeleteEngine, ChangeRuleSet, DeletePolicy,
              DeletePlugin, Edit, Drift
<1>2. CASE Deliver \/ DeliverTarget \/ Restart \/ Tick
  BY <1>2 DEF Deliver, DeliverEngine, DeliverAccounts, DeliverEvent, DeliverRuleSet,
              DeliverPolicy, DeliverTarget, Restart, Tick
<1>3. CASE Work
  BY <1>3 DEF Work, Start, StartFails, Cleanup, Unfinalize, Finalize, InitializeStatus,
              CheckRuleSet, ApplyPolicy, EnsureToken, ApplyPlugin, PatchReady
<1> QED
  BY <1>1, <1>2, <1>3 DEF Next, vars

\* A reconciliation gets its token in one step and keeps it.
LEMMA JobTokenKept ==
  ASSUME JobInv, [Next]_vars, job'.pc \in {"plugin", "ready"}
  PROVE  \/ job.pc \in {"plugin", "ready"} /\ job'.token = job.token
         \/ EnsureToken
<1>0. job \in JobType
  BY DEF JobInv
<1>I. ASSUME job' = Idle PROVE FALSE
  BY <1>I DEF Idle
<1>D. ASSUME NEW reason, NEW retriable, Degrade(reason, retriable) PROVE FALSE
  BY <1>D, <1>I DEF Degrade, Failed, Done
<1>S. ASSUME NEW label, NEW reason, StepFails(label, reason) PROVE FALSE
  BY <1>S, <1>I DEF StepFails, Failed
<1>1. CASE Users \/ Deliver \/ DeliverTarget \/ CollectGarbage \/ Tick \/ UNCHANGED vars
  <2>1. UNCHANGED job
    BY <1>1 DEF Users, CreateEngine, ChangeEngine, DeleteEngine, ChangeRuleSet, DeletePolicy,
                DeletePlugin, Edit, Drift, Deliver, DeliverEngine, DeliverAccounts,
                DeliverEvent, DeliverRuleSet, DeliverPolicy, DeliverTarget, CollectGarbage,
                Tick, vars
  <2> QED
    BY <2>1
<1>2. CASE Restart \/ Unfinalize \/ Finalize \/ PatchReady
  BY <1>2, <1>I DEF Restart, Unfinalize, Finalize, PatchReady, Done, Failed
<1>3. CASE Start
  <2>1. job'.pc = FirstStep(view)
    BY <1>3 DEF Start, Idle
  <2> QED
    BY <2>1 DEF FirstStep
<1>4. CASE StartFails
  BY <1>4 DEF StartFails
<1>5. CASE Cleanup
  <2>1. Goto("unfinalize")
    BY <1>5, <1>I DEF Cleanup, Done, Failed
  <2> QED
    BY <1>0, <2>1 DEF Goto, JobType
<1>6. CASE InitializeStatus
  <2>1. ASSUME NEW v, job' = [job EXCEPT !.pc = "ruleSet", !.obj = v] PROVE FALSE
    BY <1>0, <2>1 DEF JobType
  <2> QED
    BY <1>6, <1>I, <2>1 DEF InitializeStatus, Failed
<1>7. CASE CheckRuleSet
  <2>1. Goto("policy")
    BY <1>7, <1>I, <1>D DEF CheckRuleSet, Failed
  <2> QED
    BY <1>0, <2>1 DEF Goto, JobType
<1>8. CASE ApplyPolicy
  <2>1. Goto("account")
    BY <1>8, <1>D, <1>S DEF ApplyPolicy
  <2> QED
    BY <1>0, <2>1 DEF Goto, JobType
<1>9. CASE EnsureAccount
  <2>1. ASSUME NEW id, job' = [job EXCEPT !.pc = "token", !.account = id] PROVE FALSE
    BY <1>0, <2>1 DEF JobType
  <2> QED
    BY <1>9, <1>S, <2>1 DEF EnsureAccount
<1>10. CASE ApplyPlugin
  <2>1. job.pc = "plugin" /\ Goto("ready")
    BY <1>10, <1>S DEF ApplyPlugin
  <2> QED
    BY <1>0, <2>1 DEF Goto, JobType
<1> QED
  BY <1>1, <1>2, <1>3, <1>4, <1>5, <1>6, <1>7, <1>8, <1>9, <1>10 DEF Next, Work

\* What the first Engine of a name has was made for it, and stays.
LEMMA NextFirstInv ==
  ASSUME TInv, TInv', HInv, FirstInv, [Next]_vars, Advance
  PROVE  FirstInv'
<1>0. /\ engine \in Stored /\ engine' \in Stored /\ JobInv
      /\ engine.uid \in Nat /\ engine'.uid \in Nat
      /\ plugin \in PluginType \cup {NoPlugin}
      /\ tokenStore \in [RuleSetNames -> TokenType \cup {NoToken}]
  BY StoredType DEF TInv, EngineInv, PluginInv, TokensInv
<1>1. CASE engine.uid = 0
  <2>1. ~engine.exists
    BY <1>0, <1>1 DEF Stored
  <2>2. job.pc \notin Provisioning
    BY <2>1 DEF HInv, FinalizerHeld
  <2>3. ~EnsureAccount /\ ~EnsureToken /\ ~ApplyPlugin
    BY <2>2 DEF EnsureAccount, EnsureToken, ApplyPlugin, Provisioning
  <2>4. accounts = {} /\ plugin = NoPlugin /\ \A r \in RuleSetNames : tokenStore[r] = NoToken
    BY <1>1 DEF FirstInv
  <2>5. accounts' = {}
    BY <2>3, <2>4, AccountChanges DEF CollectGarbage
  <2>6. plugin' = NoPlugin
    BY <2>3, <2>4, PluginChanges DEF Tick
  <2>7. \A r \in RuleSetNames : tokenStore'[r] = NoToken
    BY <2>3, <2>4, TokenStoreChanges DEF Restart, Tick, Older
  <2>8. job'.pc \notin {"plugin", "ready"}
    BY <1>0, <2>2, <2>3, JobTokenKept DEF Provisioning
  <2> QED
    BY <2>5, <2>6, <2>7, <2>8 DEF FirstInv
<1>2. CASE engine.exists /\ engine.uid = 1
  <2>1. /\ \A a \in accounts : a.uid = 1
        /\ \A r \in RuleSetNames :
             tokenStore[r] # NoToken => tokenStore[r].account \in Ids(accounts)
        /\ plugin # NoPlugin => plugin.token.account \in Ids(accounts)
        /\ job.pc \in {"plugin", "ready"} => job.token.account \in Ids(accounts)
    BY <1>2 DEF FirstInv
  <2>2. job.pc \in Provisioning => job.obj.uid = 1
    BY <1>2 DEF HInv, FinalizerHeld
  <2>3. accounts \subseteq accounts' /\ \A a \in accounts' : a.uid = 1
    <3>1. CASE UNCHANGED accounts
      BY <2>1, <3>1
    <3>2. CASE EnsureAccount
      <4>1. job.obj.uid = 1
        BY <2>2, <3>2 DEF EnsureAccount, Provisioning
      <4>2. CASE UNCHANGED accounts
        BY <2>1, <4>2
      <4>3. ASSUME NEW id, accounts' = accounts \cup {[id |-> id, uid |-> job.obj.uid]}
            PROVE  accounts \subseteq accounts' /\ \A a \in accounts' : a.uid = 1
        BY <2>1, <4>1, <4>3
      <4> QED
        BY <3>2, <4>2, <4>3 DEF EnsureAccount
    <3>3. CASE CollectGarbage
      <4>1. \A a \in accounts : Owned(a)
        BY <1>2, <2>1 DEF Owned
      <4> QED
        BY <2>1, <3>3, <4>1 DEF CollectGarbage
    <3> QED
      BY <3>1, <3>2, <3>3, AccountChanges
  <2>4. Ids(accounts) \subseteq Ids(accounts')
    BY <2>3 DEF Ids
  <2>5. /\ \A r \in RuleSetNames :
             tokenStore'[r] # NoToken => tokenStore'[r].account \in Ids(accounts)
        /\ EnsureToken => (job'.pc # "idle" => job'.token.account \in Ids(accounts))
    <3>1. CASE UNCHANGED tokenStore /\ ~EnsureToken
      BY <2>1, <3>1
    <3>2. CASE EnsureToken
      <4> DEFINE stored == tokenStore[tokenKey(job.obj.ruleSet)]
                 requested == [account |-> job.account, ruleSet |-> job.obj.ruleSet, age |-> 0]
      <4>0. job.pc = "token" /\ job \in JobType /\ job.obj.ruleSet \in RuleSetNames
        BY <1>0, <3>2 DEF EnsureToken, JobInv, JobType, Provisioning, Stored
      <4>1. CASE job' = Idle /\ UNCHANGED tokenStore
        BY <2>1, <4>1 DEF Idle
      <4>2. CASE ~NeedsRenewal(stored) /\ UNCHANGED tokenStore /\
                 job' = [job EXCEPT !.pc = "plugin", !.token = stored]
        <5>1. stored.account \in Ids(accounts)
          BY <2>1, <4>0, <4>2 DEF NeedsRenewal, tokenKey
        <5> HIDE DEF stored
        <5> QED
          BY <2>1, <4>0, <4>2, <5>1 DEF JobType
      <4>3. CASE StoreToken(requested) /\ job.account \in Ids(accounts) /\
                 job' = [job EXCEPT !.pc = "plugin", !.token = requested]
        <5>1. requested.account \in Ids(accounts)
          BY <4>3
        <5> HIDE DEF requested
        <5>2. job'.token = requested
          BY <4>0, <4>3 DEF JobType
        <5> QED
          BY <2>1, <4>3, <5>1, <5>2 DEF StoreToken
      <4>D. ASSUME NEW reason, NEW retriable, Degrade(reason, retriable) PROVE job' = Idle
        BY <4>D DEF Degrade, Failed, Done
      <4>S. ASSUME NEW label, NEW reason, StepFails(label, reason) PROVE job' = Idle
        BY <4>S DEF StepFails, Failed
      <4> QED
        BY <3>2, <4>1, <4>2, <4>3, <4>D, <4>S DEF EnsureToken
    <3>3. CASE Restart
      BY <3>3 DEF Restart, Idle
    <3>4. CASE Tick
      <4>1. \A r \in RuleSetNames : tokenStore'[r] = Older(tokenStore[r])
        BY <3>4 DEF Tick
      <4>2. ASSUME NEW t \in TokenType \cup {NoToken}, Older(t) # NoToken
            PROVE  t # NoToken /\ Older(t).account = t.account
        BY <4>2 DEF Older, TokenType
      <4>3. ~EnsureToken
        BY <3>4 DEF Tick, Settled, EnsureToken
      <4> QED
        BY <1>0, <2>1, <4>1, <4>2, <4>3
    <3> QED
      BY <3>1, <3>2, <3>3, <3>4, TokenStoreChanges
  <2>6. plugin' # NoPlugin => plugin'.token.account \in Ids(accounts)
    <3>1. CASE UNCHANGED plugin \/ plugin' = NoPlugin
      BY <2>1, <3>1
    <3>2. CASE ApplyPlugin /\ ~UNCHANGED plugin
      BY <2>1, <3>2 DEF ApplyPlugin, buildWasmPlugin
    <3>3. CASE Tick /\ plugin # NoPlugin
      <4> DEFINE t == Older(plugin.token)
      <4>1. plugin \in PluginType /\ plugin.token \in TokenType
        BY <1>0, <3>3 DEF PluginType
      <4>2. plugin'.token = t
        BY <3>3, <4>1 DEF Tick, PluginType
      <4>3. t.account = plugin.token.account
        BY <4>1 DEF Older, TokenType
      <4> HIDE DEF t
      <4> QED
        BY <2>1, <3>3, <4>2, <4>3
    <3>4. CASE Tick /\ plugin = NoPlugin
      BY <3>4 DEF Tick
    <3> QED
      BY <3>1, <3>2, <3>3, <3>4, PluginChanges
  <2>7. job'.pc \in {"plugin", "ready"} => job'.token.account \in Ids(accounts)
    <3> SUFFICES ASSUME job'.pc \in {"plugin", "ready"}
                 PROVE  job'.token.account \in Ids(accounts)
      OBVIOUS
    <3>1. CASE job.pc \in {"plugin", "ready"} /\ job'.token = job.token
      BY <2>1, <3>1
    <3>2. CASE EnsureToken
      BY <2>5, <3>2
    <3> QED
      BY <1>0, <3>1, <3>2, JobTokenKept
  <2>8. engine'.uid # 0
    BY <1>0, <1>2 DEF Advance
  <2> QED
    BY <2>3, <2>4, <2>5, <2>6, <2>7, <2>8 DEF FirstInv
<1>3. CASE engine.uid # 0 /\ ~(engine.exists /\ engine.uid = 1)
  <2>1. engine'.uid # 0 /\ ~(engine'.exists /\ engine'.uid = 1)
    BY <1>0, <1>3 DEF Advance
  <2> QED
    BY <2>1 DEF FirstInv
<1> QED
  BY <1>1, <1>2, <1>3

\* The informer's copies of RuleSets change when they are delivered.
LEMMA RuleSetViewChanges ==
  ASSUME [Next]_vars
  PROVE  UNCHANGED ruleSetView \/ Restart \/ \E r \in RuleSetNames : DeliverRuleSet(r)
<1>1. CASE Users
  BY <1>1 DEF Users, CreateEngine, ChangeEngine, DeleteEngine, ChangeRuleSet, DeletePolicy,
              DeletePlugin, Edit, Drift, viewVars
<1>2. CASE Deliver \/ DeliverTarget \/ CollectGarbage \/ Tick
  BY <1>2 DEF Deliver, DeliverEngine, DeliverAccounts, DeliverEvent, DeliverPolicy,
              DeliverTarget, CollectGarbage, Tick, viewVars
<1>3. CASE Work
  BY <1>3 DEF Work, Start, StartFails, Cleanup, Unfinalize, Finalize, InitializeStatus,
              CheckRuleSet, ApplyPolicy, EnsureAccount, EnsureToken, ApplyPlugin, PatchReady,
              viewVars
<1> QED
  BY <1>1, <1>2, <1>3 DEF Next, vars

\* They are copies of RuleSets.
LEMMA NextRuleSetViewInv ==
  ASSUME TInv, RuleSetViewInv, [Next]_vars
  PROVE  RuleSetViewInv'
<1>1. ruleSet \in [RuleSetNames -> {"absent", "fine", "degraded"}]
  BY DEF TInv, ObjectsInv
<1> QED
  BY <1>1, RuleSetViewChanges DEF RuleSetViewInv, Restart, DeliverRuleSet

\* When nothing will wake the reconciler up for an Engine that can be
\* provisioned, the step before has not changed what it is to provision.
LEMMA NotDue ==
  ASSUME TInv, TInv', HInv, PInv, [Next]_vars, Advance, Reading, Expected', ~Due'
  PROVE  /\ Current(view) /\ Expected /\ wake' # 0 /\ ~event' /\ policyView' = policies'
         /\ engine'.uid = engine.uid /\ engine'.gen = engine.gen
         /\ engine'.ruleSet = engine.ruleSet /\ engine'.target = engine.target
<1>0. /\ engine \in Stored /\ engine' \in Stored /\ view \in Stored /\ view \in Known
      /\ engine'.exists /\ wake' # 0 /\ Current(view)' /\ ~event' /\ policyView' = policies'
      /\ EngineInv
  BY KnownOrdered DEF TInv, EngineInv, HInv, Expected, Due, Awake
<1>1. ~Restart
  BY <1>0 DEF Restart
<1>2. Current(view) /\ engine'.gen = engine.gen
  <2>1. CASE view' = view
    <3>1. ASSUME NEW v, v = view PROVE Current(v) /\ engine'.gen = engine.gen
      <4>1. v \in Stored /\ Dated(v) /\ Current(v)'
        BY <1>0, <2>1, <3>1 DEF PInv, GenInv, Current
      <4> QED
        BY <1>0, <4>1, CurrentBefore
    <3> QED
      BY <3>1
  <2>2. CASE DeliverEngine
    BY <1>0, <2>2, DeliverWakes DEF DeliverEngine, PInv
  <2> QED
    BY <1>1, <2>1, <2>2 DEF Reading
<1>3. /\ engine.exists /\ engine'.uid = engine.uid /\ engine'.deleting = engine.deleting
      /\ engine'.ruleSet = engine.ruleSet /\ engine'.target = engine.target
  BY <1>0, <1>2 DEF Advance
<1>4. view.exists /\ view.ruleSet = engine.ruleSet /\ engine.ruleSet \in RuleSetNames
  BY <1>0, <1>2, <1>3 DEF PInv, GenInv, Dated, Current, Stored
<1>5. ruleSetView'[engine.ruleSet] = ruleSetView[engine.ruleSet]
  <2>1. ASSUME NEW r \in RuleSetNames, DeliverRuleSet(r) PROVE r # engine.ruleSet
    BY <1>0, <1>4, <2>1 DEF DeliverRuleSet, findEnginesForRuleSet, Enqueue
  <2>2. ASSUME NEW r \in RuleSetNames, DeliverRuleSet(r)
        PROVE  ruleSetView'[engine.ruleSet] = ruleSetView[engine.ruleSet]
    <3>1. ruleSetView' = [ruleSetView EXCEPT ![r] = ruleSet[r]] /\ r # engine.ruleSet
      BY <2>1, <2>2 DEF DeliverRuleSet
    <3> QED
      BY <1>4, <3>1 DEF PInv, RuleSetViewInv
  <2> QED
    BY <1>1, <2>2, RuleSetViewChanges
<1> QED
  BY <1>0, <1>2, <1>3, <1>5 DEF Expected

\* Rest is kept: whatever a step does, an Engine that can be provisioned is,
\* or the reconciler is on its way to it, or it will be.
LEMMA NextRestInv ==
  ASSUME TInv, TInv', HInv, PInv, [Next]_vars, Advance, Reading
  PROVE  RestInv'
<1> DEFINE Goal ==
      /\ job'.pc = "idle" => Resting'
      /\ job'.pc \in {"account", "token", "plugin"} => Permitted'
      /\ job'.pc = "ready" => Runs' /\ plugin'.token = job'.token
<1> SUFFICES ASSUME Expected', ~Due' PROVE Goal
  BY DEF RestInv
<1>0. /\ Current(view) /\ Expected /\ wake' # 0 /\ ~event' /\ policyView' = policies'
      /\ engine'.uid = engine.uid /\ engine'.gen = engine.gen
      /\ engine'.ruleSet = engine.ruleSet /\ engine'.target = engine.target
  BY NotDue
<1>1. /\ engine \in Stored /\ engine.exists /\ ~engine.deleting /\ engine.gen \in Nat
      /\ job \in JobType /\ view.exists /\ ~view.deleting
  <2>1. engine \in Stored /\ engine.exists /\ ~engine.deleting /\ job \in JobType
    BY <1>0 DEF TInv, EngineInv, JobInv, Expected
  <2>2. view \in Known
    BY KnownOrdered DEF TInv, HInv
  <2>3. view.exists /\ ~view.deleting
    BY <1>0, <2>1, <2>2 DEF PInv, GenInv, Dated, Current
  <2> QED
    BY <2>1, <2>3, StoredType
\* What a reconciliation under way works on.
<1>2. ASSUME job.pc # "idle", wake # 0
      PROVE  /\ job.obj.exists /\ ~job.obj.deleting /\ job.obj.uid = engine.uid
             /\ job.obj.ruleSet = engine.ruleSet /\ job.obj.target = engine.target
  <2>1. Current(job.obj) /\ Dated(job.obj)
    BY <1>0, <1>1, <1>2 DEF PInv, GenInv, StaleInv, Awake
  <2> QED
    BY <1>1, <2>1 DEF Dated, Current
<1>3. ASSUME wake' = wake, ~event, policyView = policies
      PROVE  /\ job.pc = "idle" => Resting
             /\ job.pc \in {"account", "token", "plugin"} => Permitted
             /\ job.pc = "ready" => Runs /\ plugin.token = job.token
  BY <1>0, <1>3 DEF PInv, RestInv, Due, Awake
<1>4. ASSUME UNCHANGED <<policies, plugin, wake, job>>, ~event, policyView = policies
      PROVE  Goal
  BY <1>0, <1>3, <1>4 DEF Resting, Runs, Permitted
<1>D. ASSUME NEW reason, Degrade(reason, TRUE) PROVE FALSE
  BY <1>0, <1>D DEF Degrade, Failed
<1>S. ASSUME NEW label, NEW reason, StepFails(label, reason) PROVE FALSE
  BY <1>0, <1>S DEF StepFails, Failed
<1>5. ASSUME NEW spec \in Specs, CreateEngine(spec) PROVE FALSE
  BY <1>1, <1>5 DEF CreateEngine
<1>6. ASSUME NEW spec \in Specs, ChangeEngine(spec) PROVE FALSE
  <2>1. engine'.gen = engine.gen + 1
    BY <1>1, <1>6 DEF ChangeEngine, Store, Stored, Versions
  <2> QED
    BY <1>0, <1>1, <2>1
<1>7. CASE DeleteEngine
  <2>1. engine' = Gone \/ engine' = [engine EXCEPT !.deleting = TRUE, !.gen = @ + 1]
    BY <1>7 DEF DeleteEngine, Store
  <2>2. CASE engine' = Gone
    BY <1>1, <2>2, GoneStored DEF Expected
  <2>3. CASE engine' = [engine EXCEPT !.deleting = TRUE, !.gen = @ + 1]
    <3>1. engine'.gen = engine.gen + 1
      BY <1>1, <2>3 DEF Stored, Versions
    <3> QED
      BY <1>0, <1>1, <3>1
  <2> QED
    BY <2>1, <2>2, <2>3
<1>8. ASSUME NEW r \in RuleSetNames, NEW state \in {"absent", "fine", "degraded"},
             ChangeRuleSet(r, state)
      PROVE  Goal
  BY <1>0, <1>4, <1>8 DEF ChangeRuleSet, Edit, viewVars
<1>9. ASSUME NEW p \in policies, DeletePolicy(p) PROVE FALSE
  BY <1>0, <1>9 DEF DeletePolicy, Drift, viewVars
<1>10. CASE DeletePlugin
  BY <1>0, <1>10 DEF DeletePlugin
<1>11. CASE DeliverEngine
  <2>1. UNCHANGED <<policies, policyView, plugin, event, job>> /\ wake' = wake
    BY <1>0, <1>11 DEF DeliverEngine, Enqueue
  <2> QED
    BY <1>0, <1>4, <2>1
<1>12. CASE DeliverAccounts
  BY <1>0, <1>4, <1>12 DEF DeliverAccounts
<1>13. CASE DeliverEvent \/ DeliverTarget
  BY <1>0, <1>13 DEF DeliverEvent, DeliverTarget, Enqueue
<1>14. ASSUME NEW r \in RuleSetNames, DeliverRuleSet(r) PROVE Goal
  <2>1. UNCHANGED <<policies, policyView, plugin, event, job>> /\ wake' = wake
    BY <1>0, <1>14 DEF DeliverRuleSet, Enqueue
  <2> QED
    BY <1>0, <1>4, <2>1
<1>15. ASSUME NEW id \in PolicyChanges, DeliverPolicy(id) PROVE FALSE
  BY <1>0, <1>15 DEF DeliverPolicy, Enqueue
<1>16. CASE CollectGarbage
  BY <1>0, <1>4, <1>16 DEF CollectGarbage, viewVars
<1>17. CASE Start
  <2>1. job'.pc = FirstStep(view)
    BY <1>17 DEF Start, Idle
  <2>2. job'.pc \in {"finalize", "init", "ruleSet"}
    BY <1>1, <2>1 DEF FirstStep
  <2> QED
    BY <2>2
<1>18. CASE StartFails
  BY <1>0, <1>18 DEF StartFails
<1>19. CASE Cleanup
  <2>1. job.pc \in {"orphans", "cleanup"} /\ wake' \in {wake, 0}
    BY <1>19 DEF Cleanup, Goto, Done, Failed
  <2>2. job.obj.exists /\ ~job.obj.deleting
    BY <1>0, <1>2, <2>1
  <2> QED
    BY <2>1, <2>2 DEF TInv, JobInv
<1>20. CASE Unfinalize
  <2>1. job.pc = "unfinalize" /\ wake' \in {wake, 0}
    BY <1>20 DEF Unfinalize, Done, Failed
  <2> QED
    BY <1>0, <1>2, <2>1 DEF TInv, JobInv
<1>21. CASE Finalize
  BY <1>0, <1>21 DEF Finalize, Failed
<1>22. CASE InitializeStatus
  <2>1. ASSUME NEW v, job' = [job EXCEPT !.pc = "ruleSet", !.obj = v] PROVE Goal
    BY <1>1, <2>1 DEF JobType
  <2> QED
    BY <1>0, <1>22, <2>1 DEF InitializeStatus, Failed
<1>23. CASE CheckRuleSet
  <2>1. CASE Goto("policy")
    BY <1>1, <2>1 DEF Goto, JobType
  <2>2. CASE ruleSetView[job.obj.ruleSet] # "fine" /\ wake' = wake
    <3>1. job.pc # "idle"
      BY <1>23 DEF CheckRuleSet
    <3> QED
      BY <1>0, <1>2, <2>2, <3>1 DEF Expected
  <2>3. CASE wake' = 0
    BY <1>0, <2>3
  <2>4. ASSUME NEW reason, Degrade(reason, FALSE) PROVE wake' \in {wake, 0}
    BY <2>4 DEF Degrade, Done, Failed
  <2> QED
    BY <1>23, <2>1, <2>2, <2>3, <2>4 DEF CheckRuleSet, Failed
<1>24. CASE ApplyPolicy
  <2>1. Goto("account") /\ policyView' = policyView /\ event' = event /\ plugin' = plugin
    BY <1>24, <1>D, <1>S DEF ApplyPolicy, viewVars
  <2>2. job'.pc = "account" /\ wake' = wake /\ job.pc = "policy"
    BY <1>1, <1>24, <2>1 DEF Goto, JobType, ApplyPolicy
  <2>3. job.obj.target = engine.target
    BY <1>0, <1>2, <2>2
  <2>4. ASSUME NEW id, policies' = policies \cup {[id |-> id, target |-> job.obj.target]}
        PROVE  Permitted'
    <3>1. [id |-> id, target |-> job.obj.target] \in policies'
      BY <2>4
    <3> QED
      BY <1>0, <2>3, <3>1 DEF Permitted
  <2>5. ASSUME NEW p \in policies, policies' = (policies \ {p}) \cup {UpdatedPolicy(p)}
        PROVE  Permitted'
    <3>1. p \in [id : Nat, target : Targets] /\ UpdatedPolicy(p) \in policies'
      BY <2>5 DEF TInv, ObjectsInv
    <3>2. UpdatedPolicy(p).target = job.obj.target
      BY <3>1 DEF UpdatedPolicy
    <3> QED
      BY <1>0, <2>3, <3>1, <3>2 DEF Permitted
  <2>6. Permitted'
    BY <1>24, <1>D, <1>S, <2>4, <2>5 DEF ApplyPolicy
  <2> QED
    BY <2>2, <2>6
<1>25. CASE EnsureAccount
  <2>1. ASSUME NEW id, job' = [job EXCEPT !.pc = "token", !.account = id]
        PROVE  job'.pc = "token"
    BY <1>1, <2>1 DEF JobType
  <2>2. /\ UNCHANGED <<policies, policyView, plugin, event, wake>>
        /\ job.pc = "account" /\ job'.pc = "token"
    BY <1>25, <1>S, <2>1 DEF EnsureAccount, viewVars
  <2> QED
    BY <1>0, <1>3, <2>2 DEF Permitted
<1>26. CASE EnsureToken
  <2>1. ASSUME NEW t, job' = [job EXCEPT !.pc = "plugin", !.token = t]
        PROVE  job'.pc = "plugin"
    BY <1>1, <2>1 DEF JobType
  <2>2. /\ UNCHANGED <<policies, policyView, plugin, event, wake>>
        /\ job.pc = "token" /\ job'.pc = "plugin"
    BY <1>26, <1>D, <1>S, <2>1 DEF EnsureToken, viewVars
  <2> QED
    BY <1>0, <1>3, <2>2 DEF Permitted
<1>27. CASE ApplyPlugin
  <2>1. /\ Goto("ready") /\ plugin' = buildWasmPlugin /\ job.pc = "plugin"
        /\ event' = (event \/ plugin' # plugin)
        /\ UNCHANGED <<policies, policyView, wake>>
    BY <1>27, <1>S DEF ApplyPlugin, viewVars, Goto
  <2>2. job'.pc = "ready" /\ job'.token = job.token
    BY <1>1, <2>1 DEF Goto, JobType
  <2>3. ~event /\ policyView = policies
    BY <1>0, <2>1
  <2>4. Permitted
    BY <1>3, <2>1, <2>3
  <2>5. /\ job.obj.uid = engine.uid /\ job.obj.ruleSet = engine.ruleSet
        /\ job.obj.target = engine.target
    BY <1>0, <1>2, <2>1
  <2>6. plugin' # NoPlugin
    <3>1. job.obj \in Stored /\ job.obj.exists /\ job.token \in TokenType
      BY <1>1, <2>1 DEF TInv, JobInv, JobType, Provisioning
    <3>2. job.obj.uid \in Nat /\ job.obj.ruleSet \in RuleSetNames
          /\ job.obj.target \in Targets
      BY <3>1, StoredType DEF Stored
    <3>3. buildWasmPlugin \in PluginType
      BY <3>1, <3>2 DEF buildWasmPlugin, PluginType
    <3> QED
      BY <2>1, <3>3, PluginAssumption
  <2> QED
    BY <1>0, <2>1, <2>2, <2>4, <2>5, <2>6 DEF Runs, Permitted, buildWasmPlugin
<1>28. CASE PatchReady
  <2>1. /\ job.pc = "ready" /\ job'.pc = "idle"
        /\ wake # 0 /\ wake' = RenewAt - job.token.age
        /\ UNCHANGED <<policies, policyView, plugin, event>>
    <3>1. /\ job.pc = "ready" /\ job' = Idle
          /\ UNCHANGED <<policies, policyView, plugin, event>>
      BY <1>28 DEF PatchReady, Failed, viewVars
    <3>2. wake' = 0 \/ wake' = IF wake = 0 THEN 0 ELSE RequeueAfter
      BY <1>28 DEF PatchReady, Failed
    <3> QED
      BY <1>0, <3>1, <3>2 DEF Idle, RequeueAfter
  <2>2. Runs /\ plugin.token = job.token
    BY <1>0, <2>1 DEF PInv, RestInv, Due, Awake
  <2>3. job.token.age \in Nat /\ job.token.age < RenewAt /\ RenewAt \in Nat
    BY <2>1, TokenAssumption DEF TInv, JobInv, TokenType
  <2>4. wake' \in 1..RenewAt /\ wake' + job.token.age <= RenewAt
    BY <2>1, <2>3
  <2> QED
    BY <1>0, <2>1, <2>2, <2>4 DEF Resting, Runs
<1>29. CASE Restart
  BY <1>0, <1>1, <1>29 DEF Restart
<1>30. CASE Tick
  <2>1. /\ job.pc = "idle" /\ job' = job /\ wake # 0
        /\ UNCHANGED <<policies, policyView, event>>
        /\ wake' = IF wake = Never THEN Never ELSE wake - 1
        /\ plugin' = IF plugin = NoPlugin THEN plugin
                     ELSE [plugin EXCEPT !.token = Older(@)]
    BY <1>30 DEF Tick, Settled, viewVars
  <2>2. Resting
    BY <1>0, <2>1 DEF PInv, RestInv, Due, Awake
  <2> DEFINE t == Older(plugin.token)
  <2>3. /\ plugin \in PluginType /\ plugin # NoPlugin /\ plugin.token \in TokenType
        /\ plugin' = [plugin EXCEPT !.token = t]
    BY <2>1, <2>2 DEF Resting, Runs, TInv, PluginInv, PluginType
  <2>4. plugin.token.age \in Nat /\ t.age \in Nat /\ t.age <= plugin.token.age + 1
    BY <2>3, TokenAssumption DEF Older, TokenType
  <2>5. wake \in 1..RenewAt /\ RenewAt \in Nat /\ wake # Never /\ wake' = wake - 1
    BY <2>1, <2>2, TokenAssumption DEF Resting
  <2> HIDE DEF t
  <2>6. /\ plugin'.token = t /\ plugin'.uid = plugin.uid /\ plugin'.ruleSet = plugin.ruleSet
        /\ plugin'.target = plugin.target
    BY <2>3 DEF PluginType
  <2>7. wake' \in 1..RenewAt /\ wake' + t.age <= RenewAt
    BY <1>0, <2>2, <2>4, <2>5 DEF Resting
  <2>8. plugin' # NoPlugin
    <3>1. t \in TokenType
      BY <2>3, OlderType DEF t, Older
    <3>2. plugin' \in PluginType
      BY <2>3, <3>1 DEF PluginType
    <3> QED
      BY <3>2, PluginAssumption
  <2> QED
    BY <1>0, <2>1, <2>2, <2>6, <2>7, <2>8 DEF Resting, Runs
<1>31. CASE UNCHANGED vars
  BY <1>0, <1>4, <1>31 DEF vars
<1> QED
  BY <1>5, <1>6, <1>7, <1>8, <1>9, <1>10, <1>11, <1>12, <1>13, <1>14, <1>15, <1>16, <1>17,
     <1>18, <1>19, <1>20, <1>21, <1>22, <1>23, <1>24, <1>25, <1>26, <1>27, <1>28, <1>29,
     <1>30, <1>31 DEF Next, Users, Deliver, Work

\* The invariant holds at the start: there is no Engine.
LEMMA InitPInv == Init => PInv
<1> SUFFICES ASSUME Init PROVE PInv
  OBVIOUS
<1>1. /\ engine = Missing /\ view = Missing /\ log = <<>> /\ job.pc = "idle"
      /\ ~Missing.exists /\ Missing.gen = 0
  BY MissingStored DEF Init, Idle, Missing
<1>2. Len(log) = 0
  BY <1>1, EmptySeq
<1>3. Known = {Missing}
  BY <1>1, <1>2 DEF Known
<1>4. GenInv
  BY <1>1, <1>3 DEF GenInv, Dated, Current
<1>5. RuleSetViewInv
  BY DEF Init, RuleSetViewInv
<1>6. FirstInv
  BY <1>1 DEF Init, FirstInv
<1> QED
  BY <1>1, <1>4, <1>5, <1>6 DEF PInv, StaleInv, RestInv, Expected

\* Every step keeps it.
LEMMA NextPInv == TInv /\ TInv' /\ HInv /\ PInv /\ [Next]_vars => PInv'
<1> SUFFICES ASSUME TInv, TInv', HInv, PInv, [Next]_vars PROVE PInv'
  OBVIOUS
<1>1. Advance /\ Reading
  BY StepKinds, StepAdvances DEF TInv
<1>2. GenInv'
  BY <1>1, NextGenInv DEF TInv, PInv
<1>3. StaleInv'
  BY <1>1, NextStaleInv DEF PInv
<1>4. FirstInv'
  BY <1>1, NextFirstInv DEF PInv
<1>5. RuleSetViewInv'
  BY NextRuleSetViewInv DEF PInv
<1>6. RestInv'
  BY <1>1, NextRestInv
<1> QED
  BY <1>2, <1>3, <1>4, <1>5, <1>6 DEF PInv

\* At rest, an Engine that can be provisioned is.
LEMMA RestIsProvisioned ==
  ASSUME TInv, HInv, PInv
  PROVE  ProvisionedAtRest
<1> SUFFICES ASSUME Settled, Wanted, engine.uid = 1 PROVE Runs /\ Authenticates
  BY DEF ProvisionedAtRest
<1>1. /\ engine.exists /\ ~engine.deleting /\ ruleSetView[engine.ruleSet] = "fine"
      /\ job.pc = "idle" /\ wake # 0 /\ ~event /\ policyView = policies /\ log = <<>>
  BY DEF Settled, Wanted
<1>2. view = engine
  BY <1>1 DEF HInv, HistoryOrdered
<1>3. Expected /\ ~Due
  BY <1>1, <1>2 DEF Expected, Due, Awake, Current
<1>4. Resting
  BY <1>1, <1>3 DEF PInv, RestInv
<1>5. plugin # NoPlugin /\ plugin.token \in TokenType
  BY <1>4 DEF Resting, Runs, TInv, PluginInv, PluginType
<1>6. plugin.token.age \in Nat /\ RenewAt \in Nat /\ Lifetime \in Nat /\ RenewAt < Lifetime
  BY <1>5, TokenAssumption DEF TokenType
<1>7. plugin.token.age < Lifetime
  BY <1>4, <1>6 DEF Resting
<1>8. plugin.token.account \in Ids(accounts)
  BY <1>1, <1>5 DEF PInv, FirstInv
<1> QED
  BY <1>4, <1>5, <1>7, <1>8 DEF Resting, Authenticates

\* Whenever everything has come to rest, the first Engine of its name is
\* provisioned if it can be, and its plugin's token opens the cache server,
\* for any number of edits, changes by others, failing calls and restarts,
\* any lag of the informers and any token lifetime: no watch filters out what
\* matters, and the wake-up for the renewal is never lost or late
\* (SetupWithManager, provisionWasmDriver, ensureCacheToken).
THEOREM RestsProvisioned == Spec => []ProvisionedAtRest
<1>1. Spec => []PInv
  BY InitPInv, NextPInv, TInvHolds, HInvHolds, PTL DEF Spec
<1>2. TInv /\ HInv /\ PInv => ProvisionedAtRest
  BY RestIsProvisioned
<1> QED
  BY <1>1, <1>2, TInvHolds, HInvHolds, PTL
=============================================================================
