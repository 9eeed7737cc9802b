-------------------------- MODULE EngineController --------------------------
(***************************************************************************)
(* The Engine reconciler (internal/controller/engine_controller*.go) for   *)
(* one Engine: its finalizer, the NetworkPolicy in the operator's          *)
(* namespace, the ServiceAccount and its token, the WasmPlugin and the     *)
(* status.  Engines do not meet in the reconciler (labels, owner           *)
(* references and token keys carry the Engine's name), so one is enough.   *)
(*                                                                         *)
(* Every API call of a reconciliation is a step; what it reads comes from  *)
(* informers that lag behind.  The work queue holds an Engine at most      *)
(* once, at the earliest of the times asked for: wake is 0 when it is due, *)
(* and otherwise counts down to the token's renewal.  A failed item's      *)
(* back-off is short on that scale: it is due at once, and the worker may  *)
(* take its time.                                                          *)
(*                                                                         *)
(* The API server admits only Gateway targets with a valid name and the    *)
(* wasm driver, so the reconciler's checks of these cannot fail.           *)
(*                                                                         *)
(* External: the API server, its garbage collector, users, informers, the  *)
(* work queue and the clock.                                               *)
(***************************************************************************)
EXTENDS Naturals, Sequences, FiniteSets

CONSTANTS
    Specs,           \* what users write: records of a ruleSet and a target
    NoPlugin,        \* there is no WasmPlugin
    NoToken,         \* nothing under this key in the token store
    Never,           \* the Engine is not in the work queue
    Lifetime,        \* of a token
    RenewAt,         \* age at which it is renewed (tokenRenewalFraction)
    MaxLag,          \* bound on how far informers are behind when read
    MaxEdits,        \* bound on the users' edits
    MaxDrifts,       \* bound on others' changes to the operator's objects
    MaxFaults,       \* bound on failing API calls
    MaxRestarts,     \* bound on restarts of the operator
    MaxIncarnations  \* bound on creations of the Engine

RuleSetNames == {s.ruleSet : s \in Specs}
Targets == {s.target : s \in Specs}

ASSUME TokenAssumption ==
    /\ Lifetime \in Nat
    /\ RenewAt \in 1..(Lifetime - 1)
    /\ Never \notin 0..RenewAt

ASSUME EngineAssumption ==
    /\ IsFiniteSet(Specs)
    /\ {MaxLag, MaxEdits, MaxDrifts, MaxFaults, MaxRestarts, MaxIncarnations} \subseteq Nat

VARIABLES
    engine,          \* the Engine in the API server
    log, view,       \* its versions yet to be delivered, and the informer's
    ruleSet,         \* RuleSet -> "absent", "fine" or "degraded"
    ruleSetView,
    policies,        \* NetworkPolicies labelled with the Engine
    policyView,
    accounts,        \* ServiceAccounts labelled with the Engine
    accountView,
    tokenStore,      \* token key -> token
    plugin,          \* the WasmPlugin
    event,           \* an event is under way that no view shows
    wake,            \* when the Engine is due
    job,             \* the reconciliation the worker is in
    edits, drifts, faults, restarts

engineVars == <<engine, log>>
viewVars == <<view, ruleSetView, policyView, accountView>>
bounds == <<edits, drifts, faults, restarts>>
vars == <<engine, log, view, ruleSet, ruleSetView, policies, policyView,
          accounts, accountView, tokenStore, plugin, event, wake, job,
          edits, drifts, faults, restarts>>

-----------------------------------------------------------------------------
Status(cond, reason, gen) == [cond |-> cond, reason |-> reason, gen |-> gen]

NewStatus == Status("none", "none", 0)

Missing == [exists |-> FALSE, uid |-> 0, gen |-> 0, ruleSet |-> "", target |-> "",
            deleting |-> FALSE, finalizer |-> FALSE, status |-> NewStatus]

\* Generations go on counting when an Engine is created anew, so that they
\* order its incarnations too.
Created(spec) ==
    [exists |-> TRUE, uid |-> engine.uid + 1, gen |-> engine.gen + 1,
     ruleSet |-> spec.ruleSet, target |-> spec.target, deleting |-> FALSE,
     finalizer |-> FALSE, status |-> NewStatus]

Gone == [Missing EXCEPT !.uid = engine.uid, !.gen = engine.gen]

Idle == [pc |-> "idle", obj |-> Missing, account |-> 0, token |-> NoToken]

\* The operator starts before there is an Engine.
Init ==
    /\ engine = Missing
    /\ view = Missing
    /\ log = <<>>
    /\ ruleSet \in [RuleSetNames -> {"absent", "fine"}]
    /\ ruleSetView = ruleSet
    /\ policies = {} /\ policyView = {}
    /\ accounts = {} /\ accountView = {}
    /\ tokenStore = [r \in RuleSetNames |-> NoToken]
    /\ plugin = NoPlugin
    /\ event = FALSE
    /\ wake = Never
    /\ job = Idle
    /\ edits = 0 /\ drifts = 0 /\ faults = 0 /\ restarts = 0

-----------------------------------------------------------------------------
(* Users, and the garbage collector that follows owner references.         *)

Store(version) == engine' = version /\ log' = Append(log, version)

Edit ==
    /\ edits < MaxEdits
    /\ edits' = edits + 1
    /\ UNCHANGED <<viewVars, policies, accounts, tokenStore, plugin, event,
                   wake, job, drifts, faults, restarts>>

CreateEngine(spec) ==
    /\ Edit
    /\ ~engine.exists
    /\ engine.uid < MaxIncarnations
    /\ Store(Created(spec))
    /\ UNCHANGED ruleSet

\* Without a finalizer the Engine is gone at once.
DeleteEngine ==
    /\ Edit
    /\ engine.exists /\ ~engine.deleting
    /\ Store(IF engine.finalizer
             THEN [engine EXCEPT !.deleting = TRUE, !.gen = @ + 1]
             ELSE Gone)
    /\ UNCHANGED ruleSet

ChangeEngine(spec) ==
    /\ Edit
    /\ engine.exists
    /\ spec # [ruleSet |-> engine.ruleSet, target |-> engine.target]
    /\ Store([engine EXCEPT !.ruleSet = spec.ruleSet, !.target = spec.target,
                            !.gen = @ + 1])
    /\ UNCHANGED ruleSet

\* A RuleSet comes, goes, or its controller changes its status.
ChangeRuleSet(r, state) ==
    /\ Edit
    /\ state # ruleSet[r]
    /\ ruleSet' = [ruleSet EXCEPT ![r] = state]
    /\ UNCHANGED engineVars

Drift ==
    /\ drifts < MaxDrifts
    /\ drifts' = drifts + 1
    /\ UNCHANGED <<engineVars, viewVars, ruleSet, accounts, tokenStore, wake, job,
                   edits, faults, restarts>>

\* The informer is told even if it has yet to learn that there was one.
DeletePolicy(p) ==
    /\ Drift
    /\ policies' = policies \ {p}
    /\ event' = (event \/ p \notin policyView)
    /\ UNCHANGED plugin

DeletePlugin ==
    /\ Drift
    /\ plugin # NoPlugin
    /\ plugin' = NoPlugin
    /\ event' = TRUE
    /\ UNCHANGED policies

Owned(o) == engine.exists /\ o.uid = engine.uid

CollectGarbage ==
    /\ \/ \E a \in accounts :
             /\ ~Owned(a)
             /\ accounts' = accounts \ {a}
             /\ UNCHANGED <<plugin, event>>
       \/ /\ plugin # NoPlugin
          /\ ~Owned(plugin)
          /\ plugin' = NoPlugin
          /\ event' = TRUE
          /\ UNCHANGED accounts
    /\ UNCHANGED <<engineVars, viewVars, ruleSet, policies, tokenStore, wake, job,
                   bounds>>

-----------------------------------------------------------------------------
(* Informers and watches.                                                  *)

Enqueue == wake' = 0

DeliverEngine ==
    /\ log # <<>>
    /\ view' = Head(log)
    /\ log' = Tail(log)
    /\ IF view.exists # view'.exists \/ view.gen # view'.gen
       THEN Enqueue ELSE UNCHANGED wake
    /\ UNCHANGED <<engine, ruleSet, ruleSetView, policies, policyView, accounts,
                   accountView, tokenStore, plugin, event, job, bounds>>

\* Mutant: the creation of a RuleSet is no event.
findEnginesForRuleSetUpdate(r) ==
    view.exists /\ view.ruleSet = r /\ ruleSetView[r] # "absent"

\* The Engine names this RuleSet.  The List reads the informer's memory, not
\* the API server: it fails, and the event is dropped, only when the process
\* stops.
findEnginesForRuleSet(r) == view.exists /\ view.ruleSet = r

DeliverRuleSet(r) ==
    /\ ruleSetView[r] # ruleSet[r]
    /\ ruleSetView' = [ruleSetView EXCEPT ![r] = ruleSet[r]]
    /\ IF findEnginesForRuleSet(r) THEN Enqueue ELSE UNCHANGED wake
    /\ UNCHANGED <<engineVars, view, ruleSet, policies, policyView, accounts,
                   accountView, tokenStore, plugin, event, job, bounds>>

Ids(S) == {x.id : x \in S}

PolicyChanges == Ids((policies \ policyView) \cup (policyView \ policies))

\* A policy is new, gone or has another spec; the watch maps it to its
\* Engine by label, whether or not the Engine exists.
DeliverPolicy(id) ==
    /\ id \in PolicyChanges
    /\ policyView' = {p \in policyView : p.id # id} \cup {p \in policies : p.id = id}
    /\ Enqueue
    /\ UNCHANGED <<engineVars, view, ruleSet, ruleSetView, policies, accounts,
                   accountView, tokenStore, plugin, event, job, bounds>>

\* ServiceAccounts are listed but not watched.
DeliverAccounts ==
    /\ accountView # accounts
    /\ accountView' = accounts
    /\ UNCHANGED <<engineVars, view, ruleSet, ruleSetView, policies, policyView,
                   accounts, tokenStore, plugin, event, wake, job, bounds>>

\* Any event on the plugin it owns, the operator's own changes included, and
\* the end of a policy the informer had not seen.
DeliverEvent ==
    /\ event
    /\ event' = FALSE
    /\ Enqueue
    /\ UNCHANGED <<engineVars, viewVars, ruleSet, policies, accounts, tokenStore,
                   plugin, job, bounds>>

\* A Gateway or a Pod of the Engine's target changes.
DeliverTarget ==
    /\ view.exists
    /\ Enqueue
    /\ UNCHANGED <<engineVars, viewVars, ruleSet, policies, accounts, tokenStore,
                   plugin, event, job, bounds>>

-----------------------------------------------------------------------------
(* The reconciler.                                                         *)

Done == job' = Idle /\ UNCHANGED wake

Failed == job' = Idle /\ wake' = 0

Goto(label) == job' = [job EXCEPT !.pc = label] /\ UNCHANGED wake

Fault == faults < MaxFaults /\ faults' = faults + 1

\* A merge patch sends only what differs from the object as it was read.
PatchTo(status) ==
    /\ engine.exists
    /\ IF status # job.obj.status /\ status # engine.status
       THEN Store([engine EXCEPT !.status = status])
       ELSE UNCHANGED engineVars

\* The Engine is gone, or the call fails.
CallFails ==
    /\ UNCHANGED engineVars
    /\ \/ ~engine.exists /\ UNCHANGED faults
       \/ Fault

\* Mutant: an Engine is provisioned before it carries the finalizer.
FirstStepUnfinalized(obj) ==
    IF ~obj.exists THEN "orphans"
    ELSE IF obj.deleting THEN IF obj.finalizer THEN "cleanup" ELSE "idle"
    ELSE IF obj.status.cond = "none" THEN "init" ELSE "ruleSet"

\* Mutant: nothing is cleaned up for an Engine that is not found.
FirstStepNotFound(obj) ==
    IF ~obj.exists THEN "idle"
    ELSE IF obj.deleting THEN IF obj.finalizer THEN "cleanup" ELSE "idle"
    ELSE IF ~obj.finalizer THEN "finalize"
    ELSE IF obj.status.cond = "none" THEN "init" ELSE "ruleSet"

\* Where a reconciliation goes with what it has read.
FirstStep(obj) ==
    IF ~obj.exists THEN "orphans"
    ELSE IF obj.deleting THEN IF obj.finalizer THEN "cleanup" ELSE "idle"
    ELSE IF ~obj.finalizer THEN "finalize"
    ELSE IF obj.status.cond = "none" THEN "init" ELSE "ruleSet"

Start ==
    /\ job.pc = "idle"
    /\ wake = 0
    /\ Len(log) <= MaxLag
    /\ job' = [Idle EXCEPT !.pc = FirstStep(view), !.obj = view]
    /\ wake' = Never
    /\ UNCHANGED <<engineVars, viewVars, ruleSet, policies, accounts, tokenStore,
                   plugin, event, bounds>>

\* The read itself fails: the item goes back to the queue.
StartFails ==
    /\ job.pc = "idle"
    /\ wake = 0
    /\ Fault
    /\ UNCHANGED <<engineVars, viewVars, ruleSet, policies, accounts, tokenStore,
                   plugin, event, wake, job, edits, drifts, restarts>>

\* cleanupNetworkPolicy: every listed policy is deleted, one by one.
Cleanup ==
    /\ job.pc \in {"orphans", "cleanup"}
    /\ \/ /\ policies' = {p \in policies : p.id \notin Ids(policyView)}
          /\ IF job.pc = "cleanup" THEN Goto("unfinalize") ELSE Done
          /\ UNCHANGED faults
       \/ \E rest \in SUBSET Ids(policyView) :
             /\ Fault
             /\ policies' = {p \in policies : p.id \notin Ids(policyView) \ rest}
             /\ Failed
    /\ UNCHANGED <<engineVars, viewVars, ruleSet, accounts, tokenStore, plugin,
                   event, edits, drifts, restarts>>

\* The end of handleNetworkPolicyDeletion: with its last finalizer an Engine
\* that is being deleted goes away.
Unfinalize ==
    /\ job.pc = "unfinalize"
    /\ \/ /\ engine.exists
          /\ IF engine.deleting THEN Store(Gone)
             ELSE IF engine.finalizer THEN Store([engine EXCEPT !.finalizer = FALSE])
             ELSE UNCHANGED engineVars
          /\ Done
          /\ UNCHANGED faults
       \/ CallFails /\ Failed
    /\ UNCHANGED <<viewVars, ruleSet, policies, accounts, tokenStore, plugin,
                   event, edits, drifts, restarts>>

\* ensureNetworkPolicyFinalizer; the Engine is due again at once.
Finalize ==
    /\ job.pc = "finalize"
    /\ \/ /\ engine.exists
          /\ IF engine.finalizer THEN UNCHANGED engineVars
             ELSE Store([engine EXCEPT !.finalizer = TRUE])
          /\ Failed
          /\ UNCHANGED faults
       \/ CallFails /\ Failed
    /\ UNCHANGED <<viewVars, ruleSet, policies, accounts, tokenStore, plugin,
                   event, edits, drifts, restarts>>

\* The client overwrites what was read with the API server's answer.
InitializeStatus ==
    /\ job.pc = "init"
    /\ \/ /\ PatchTo(Status("Progressing", "Reconciling", job.obj.gen))
          /\ job' = [job EXCEPT !.pc = "ruleSet", !.obj = engine']
          /\ UNCHANGED <<wake, faults>>
       \/ CallFails /\ Failed
    /\ UNCHANGED <<viewVars, ruleSet, policies, accounts, tokenStore, plugin,
                   event, edits, drifts, restarts>>

\* patchDegraded, and the end of the reconciliation.
Degrade(reason, retriable) ==
    \/ /\ PatchTo(Status("Degraded", reason, job.obj.gen))
       /\ IF retriable THEN Failed ELSE Done
       /\ UNCHANGED faults
    \/ CallFails /\ Failed

\* A step of provisioning fails: the status says so if it can be patched.
StepFails(label, reason) ==
    /\ job.pc = label
    /\ Fault
    /\ \/ PatchTo(Status("Degraded", reason, job.obj.gen))
       \/ UNCHANGED engineVars
    /\ Failed

\* isRuleSetDegraded.
CheckRuleSet ==
    LET state == ruleSetView[job.obj.ruleSet] IN
    /\ job.pc = "ruleSet"
    /\ \/ state = "fine" /\ Goto("policy") /\ UNCHANGED <<engineVars, faults>>
       \/ state = "absent" /\ Degrade("RuleSetNotFound", FALSE)
       \/ state = "degraded" /\ Degrade("RuleSetDegraded", FALSE)
       \/ Fault /\ Failed /\ UNCHANGED engineVars
    /\ UNCHANGED <<viewVars, ruleSet, policies, accounts, tokenStore, plugin,
                   event, edits, drifts, restarts>>

FreshId(S) == CHOOSE n \in 1..(Cardinality(S) + 1) : n \notin S

\* Mutant: a policy that exists is left as it is.
KeptPolicy(p) == p

UpdatedPolicy(p) == [p EXCEPT !.target = job.obj.target]

\* applyNetworkPolicy: create one if none is listed, otherwise update the
\* first one listed, which fails unless it is the policy as it is now.
ApplyPolicy ==
    /\ job.pc = "policy"
    /\ Cardinality(PolicyChanges) <= MaxLag
    /\ \/ /\ policyView = {}
          /\ policies' = policies \cup
                {[id |-> FreshId(Ids(policies)), target |-> job.obj.target]}
          /\ Goto("account")
          /\ UNCHANGED <<engineVars, faults>>
       \/ \E p \in policyView :
             \/ /\ p \in policies
                /\ policies' = (policies \ {p}) \cup {UpdatedPolicy(p)}
                /\ Goto("account")
                /\ UNCHANGED <<engineVars, faults>>
             \/ /\ p \notin policies
                /\ Degrade("NetworkPolicyFailed", TRUE)
                /\ UNCHANGED policies
       \/ StepFails("policy", "NetworkPolicyFailed") /\ UNCHANGED policies
    /\ UNCHANGED <<viewVars, ruleSet, accounts, tokenStore, plugin, event,
                   edits, drifts, restarts>>

Tokens == {tokenStore[r] : r \in RuleSetNames} \ {NoToken}

\* Names given to ServiceAccounts that something still refers to.
AccountIds ==
    Ids(accounts) \cup Ids(accountView) \cup {t.account : t \in Tokens}
        \cup (IF plugin = NoPlugin THEN {} ELSE {plugin.token.account})

\* ensureCacheClientServiceAccount.
EnsureAccount ==
    /\ job.pc = "account"
    /\ Cardinality(accounts \ accountView) <= MaxLag
    /\ \/ /\ accountView = {}
          /\ accounts' = accounts \cup
                {[id |-> FreshId(AccountIds), uid |-> job.obj.uid]}
          /\ job' = [job EXCEPT !.pc = "token", !.account = FreshId(AccountIds)]
          /\ UNCHANGED <<engineVars, wake, faults>>
       \/ \E a \in accountView :
             /\ job' = [job EXCEPT !.pc = "token", !.account = a.id]
             /\ UNCHANGED <<engineVars, accounts, wake, faults>>
       \/ StepFails("account", "ServiceAccountFailed") /\ UNCHANGED accounts
    /\ UNCHANGED <<viewVars, ruleSet, policies, tokenStore, plugin, event,
                   edits, drifts, restarts>>

\* Mutant: one token for an Engine, whatever RuleSet it names.
tokenKeyOfEngine(rs) == CHOOSE r \in RuleSetNames : TRUE

\* Keys carry the Engine's name too, which is the same for all of them here.
tokenKey(rs) == rs

NeedsRenewal(token) == token # NoToken => token.age >= RenewAt

\* A new token goes into the store, which is rid of expired ones.
StoreToken(token) ==
    tokenStore' = [r \in RuleSetNames |->
        IF r = tokenKey(job.obj.ruleSet) THEN token
        ELSE IF tokenStore[r] # NoToken /\ tokenStore[r].age >= Lifetime THEN NoToken
        ELSE tokenStore[r]]

\* ensureCacheToken: the stored token, or one requested for the account.
EnsureToken ==
    LET stored    == tokenStore[tokenKey(job.obj.ruleSet)]
        requested == [account |-> job.account, ruleSet |-> job.obj.ruleSet, age |-> 0]
        Use(t)    == job' = [job EXCEPT !.pc = "plugin", !.token = t] /\ UNCHANGED wake
    IN
    /\ job.pc = "token"
    /\ \/ /\ ~NeedsRenewal(stored)
          /\ Use(stored)
          /\ UNCHANGED <<engineVars, tokenStore, faults>>
       \/ /\ NeedsRenewal(stored)
          /\ job.account \in Ids(accounts)
          /\ StoreToken(requested)
          /\ Use(requested)
          /\ UNCHANGED <<engineVars, faults>>
       \/ /\ NeedsRenewal(stored)
          /\ job.account \notin Ids(accounts)
          /\ Degrade("TokenFailed", TRUE)
          /\ UNCHANGED tokenStore
       \/ /\ NeedsRenewal(stored)
          /\ StepFails("token", "TokenFailed")
          /\ UNCHANGED tokenStore
    /\ UNCHANGED <<viewVars, ruleSet, policies, accounts, plugin, event,
                   edits, drifts, restarts>>

\* Mutant: the token does not get into the plugin's configuration.
buildWasmPluginTokenless ==
    [uid |-> job.obj.uid, ruleSet |-> job.obj.ruleSet, target |-> job.obj.target,
     token |-> NoToken]

buildWasmPlugin ==
    [uid |-> job.obj.uid, ruleSet |-> job.obj.ruleSet, target |-> job.obj.target,
     token |-> job.token]

\* applyWasmPlugin, by server-side apply: no event if nothing changes.
ApplyPlugin ==
    /\ job.pc = "plugin"
    /\ \/ /\ plugin' = buildWasmPlugin
          /\ event' = (event \/ plugin' # plugin)
          /\ Goto("ready")
          /\ UNCHANGED <<engineVars, faults>>
       \/ StepFails("plugin", "ProvisioningFailed") /\ UNCHANGED <<plugin, event>>
    /\ UNCHANGED <<viewVars, ruleSet, policies, accounts, tokenStore, edits,
                   drifts, restarts>>

\* Mutant: no wake-up.
RenewalNever == Never

RequeueAfter == RenewAt - job.token.age

\* patchReady, and the wake-up for the token's renewal.
PatchReady ==
    /\ job.pc = "ready"
    /\ \/ /\ PatchTo(Status("Ready", "Configured", job.obj.gen))
          /\ job' = Idle
          /\ wake' = IF wake = 0 THEN 0 ELSE RequeueAfter
          /\ UNCHANGED faults
       \/ CallFails /\ Failed
    /\ UNCHANGED <<viewVars, ruleSet, policies, accounts, tokenStore, plugin,
                   event, edits, drifts, restarts>>

-----------------------------------------------------------------------------
\* The operator dies and comes back: the token store and the work queue are
\* lost, and everything it watches is listed again.
Restart ==
    /\ restarts < MaxRestarts
    /\ restarts' = restarts + 1
    /\ job' = Idle
    /\ tokenStore' = [r \in RuleSetNames |-> NoToken]
    /\ view' = engine
    /\ log' = <<>>
    /\ ruleSetView' = ruleSet
    /\ policyView' = policies
    /\ accountView' = accounts
    /\ event' = FALSE
    /\ wake' = IF engine.exists \/ policies # {} \/ plugin # NoPlugin THEN 0 ELSE Never
    /\ UNCHANGED <<engine, ruleSet, policies, accounts, plugin, edits, drifts, faults>>

\* Nothing is left to do on the time scale of a reconciliation.
Settled ==
    /\ job.pc = "idle" /\ wake # 0
    /\ log = <<>> /\ ~event
    /\ ruleSetView = ruleSet /\ policyView = policies /\ accountView = accounts
    /\ \A a \in accounts : Owned(a)
    /\ plugin # NoPlugin => Owned(plugin)

Older(token) ==
    IF token # NoToken /\ token.age < Lifetime THEN [token EXCEPT !.age = @ + 1] ELSE token

\* A tick is a good part of a token's lifetime (an hour), far longer than
\* the seconds a reconciliation, a delivery or a back-off takes.
Tick ==
    /\ Settled
    /\ tokenStore' = [r \in RuleSetNames |-> Older(tokenStore[r])]
    /\ plugin' = IF plugin = NoPlugin THEN plugin
                 ELSE [plugin EXCEPT !.token = Older(@)]
    /\ wake' = IF wake = Never THEN Never ELSE wake - 1
    /\ UNCHANGED <<engineVars, viewVars, ruleSet, policies, accounts, event,
                   job, bounds>>

-----------------------------------------------------------------------------
Users ==
    \/ \E spec \in Specs : CreateEngine(spec) \/ ChangeEngine(spec)
    \/ DeleteEngine
    \/ \E r \in RuleSetNames, state \in {"absent", "fine", "degraded"} : ChangeRuleSet(r, state)
    \/ \E p \in policies : DeletePolicy(p)
    \/ DeletePlugin

Deliver ==
    \/ DeliverEngine \/ DeliverAccounts \/ DeliverEvent
    \/ \E r \in RuleSetNames : DeliverRuleSet(r)
    \/ \E id \in PolicyChanges : DeliverPolicy(id)

Work ==
    \/ Start \/ StartFails \/ Cleanup \/ Unfinalize \/ Finalize
    \/ InitializeStatus \/ CheckRuleSet \/ ApplyPolicy \/ EnsureAccount
    \/ EnsureToken \/ ApplyPlugin \/ PatchReady

Next ==
    \/ Users \/ Deliver \/ DeliverTarget \/ CollectGarbage \/ Work \/ Restart \/ Tick

Spec == Init /\ [][Next]_vars

\* The worker works, watches deliver each of their events, garbage is
\* collected.  Users, faults, restarts and time owe nothing.
FairSpec ==
    /\ Spec
    /\ WF_vars(Work) /\ WF_vars(CollectGarbage)
    /\ WF_vars(DeliverEngine) /\ WF_vars(DeliverAccounts) /\ WF_vars(DeliverEvent)
    /\ \A r \in RuleSetNames : WF_vars(DeliverRuleSet(r))
    /\ WF_vars(\E id \in PolicyChanges : DeliverPolicy(id))

-----------------------------------------------------------------------------
(* Properties.                                                             *)

Provisioning == {"policy", "account", "token", "plugin", "ready"}

Labels == Provisioning \cup
    {"idle", "orphans", "cleanup", "unfinalize", "finalize", "init", "ruleSet"}

Conditions == {"none", "Progressing", "Degraded", "Ready"}

Reasons ==
    {"none", "Reconciling", "RuleSetNotFound", "RuleSetDegraded",
     "NetworkPolicyFailed", "ServiceAccountFailed", "TokenFailed",
     "ProvisioningFailed", "Configured"}

Versions ==
    [exists : BOOLEAN, uid : 0..MaxIncarnations, gen : Nat,
     ruleSet : RuleSetNames \cup {""}, target : Targets \cup {""},
     deleting : BOOLEAN, finalizer : BOOLEAN,
     status : [cond : Conditions, reason : Reasons, gen : Nat]]

TokenType == [account : Nat \ {0}, ruleSet : RuleSetNames, age : 0..Lifetime]

PluginType == [uid : Nat, ruleSet : RuleSetNames, target : Targets, token : TokenType]

ASSUME PluginAssumption == NoPlugin \notin PluginType

TypeOK ==
    /\ engine \in Versions
    /\ view \in Versions
    /\ ruleSet \in [RuleSetNames -> {"absent", "fine", "degraded"}]
    /\ policies \subseteq [id : Nat, target : Targets]
    /\ accounts \subseteq [id : Nat \ {0}, uid : 1..MaxIncarnations]
    /\ tokenStore \in [RuleSetNames -> TokenType \cup {NoToken}]
    /\ plugin \in PluginType \cup {NoPlugin}
    /\ wake \in 0..RenewAt \cup {Never}
    /\ job.pc \in Labels
    /\ job.obj \in Versions
    /\ job.pc \in {"plugin", "ready"} => job.token \in TokenType

\* As long as a reconciliation may still create or change objects for an
\* Engine it has read, however long ago, that Engine exists and carries the
\* finalizer: it cannot go away without a cleanup that comes after
\* (Reconcile, handleNetworkPolicyDeletion, ensureNetworkPolicyFinalizer).
FinalizerHeld ==
    job.pc \in Provisioning \cup {"init", "ruleSet"} =>
        engine.exists /\ engine.finalizer /\ engine.uid = job.obj.uid

\* "Apply NetworkPolicy first to ensure network restrictions are in place
\* before the WasmPlugin starts running" (provisionWasmDriver): whenever a
\* reconciliation changes the plugin, a policy for the very Gateway it runs in
\* is there, unless somebody else took it away.
PolicyBeforePlugin ==
    [][job' # job /\ plugin' # plugin /\ plugin' # NoPlugin /\ drifts = 0 =>
         \E p \in policies : p.target = plugin'.target]_vars

\* The token handed to a plugin is one issued for the RuleSet the plugin
\* polls, also after the Engine was pointed to another RuleSet (the token
\* store's key, engine_controller.go).
TokenScoped ==
    plugin # NoPlugin => plugin.token.ruleSet = plugin.ruleSet

\* The Engine as it stands can be provisioned.
Wanted == engine.exists /\ ~engine.deleting /\ ruleSet[engine.ruleSet] = "fine"

\* The plugin runs for the Engine and can authenticate: its token has not
\* expired and the account it was issued for exists.
Authenticates ==
    /\ plugin # NoPlugin
    /\ plugin.token.age < Lifetime
    /\ plugin.token.account \in Ids(accounts)

\* A plugin for the Engine as it stands runs, and its Gateway may reach the
\* cache server.
Runs ==
    /\ plugin # NoPlugin
    /\ plugin.uid = engine.uid
    /\ plugin.ruleSet = engine.ruleSet
    /\ plugin.target = engine.target
    /\ \E p \in policies : p.target = engine.target

\* Whenever everything has come to rest, between any two ticks of the clock
\* and after any edits, faults and restarts, an Engine that can be provisioned
\* is, and its plugin's token opens the cache server: no event that matters is
\* filtered out by a watch, the one pending wake-up of the work queue is never
\* lost where it is needed and the renewal never comes too late
\* (SetupWithManager, provisionWasmDriver, ensureCacheToken).  This is for the
\* first Engine of its name; see TokenValid.
ProvisionedAtRest ==
    Settled /\ Wanted /\ engine.uid = 1 => Runs /\ Authenticates

\* "ensureCacheToken returns a valid cache client token for the given Engine",
\* whatever Engines of that name there were before.
TokenValid == Settled /\ Wanted => Authenticates

\* A deletion is completed, and no policy outlives its Engine for good, be it
\* one the reconciler had not seen when it cleaned up ("Is cleaned up via a
\* finalizer when the Engine is deleted", explanation/security-model.md).
NoOrphans ==
    <>[](~engine.deleting /\ (~engine.exists => policies = {}))

\* When edits end, whatever was edited and whoever came first, what the
\* Engine asks for is provisioned, for an Engine created anew too (Reconcile).
Provisioned == <>[](Wanted => Runs)

\* The policy "Allows ingress from Gateway pods that match an Engine's
\* workload selector" (explanation/security-model.md), and no others.
PoliciesFollowTarget ==
    <>[](Wanted => \A p \in policies : p.target = engine.target)
=============================================================================
