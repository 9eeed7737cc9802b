------------------------- MODULE RuleSetController --------------------------
(***************************************************************************)
(* The RuleSet reconciler (internal/controller/ruleset_controller*.go and  *)
(* the status helpers of utils.go) between the API server, its informers,  *)
(* its work queue and the rule set cache.                                  *)
(*                                                                         *)
(* A reconciliation reads its RuleSet and, one after the other, the        *)
(* RuleData and RuleSource objects it names from informers that lag behind *)
(* the API server, validates what it read, puts it into the cache and      *)
(* patches the status.  Each read, the Put and each patch is a step of its *)
(* own: users edit objects, informers deliver and the process dies between *)
(* any two of them.                                                        *)
(*                                                                         *)
(* A reference stands for a RuleData or a RuleSource; RuleData comes first *)
(* in a spec because it is loaded first.  What was read for a reference    *)
(* stands for its text; whether a collection of texts compiles, and        *)
(* whether it holds unsupported rules, are parameters.                     *)
(*                                                                         *)
(* External: the API server, the informers and the work queue of           *)
(* controller-runtime (one worker, an item is queued at most once, a       *)
(* failed item comes back after a delay).                                  *)
(***************************************************************************)
EXTENDS Naturals, Sequences

CONSTANTS
    RuleSets,          \* names of RuleSet objects
    DataRefs,          \* names of RuleData objects
    SourceRefs,        \* names of RuleSource objects
    Specs,             \* sequences of references a RuleSet may be given
    Contents,          \* what a RuleData or a RuleSource may contain
    Absent,            \* the object does not exist
    Compiles(_),       \* coraza.NewWAF accepts these contents
    HasUnsupported(_), \* CheckUnsupportedRules finds something in them
    NoEntry,           \* the rule set cache has no entry
    NoRuleSet,         \* the worker is idle
    MaxLag,            \* bound on lag
    MaxEdits,          \* bound on the users' edits
    MaxDisruptions     \* bound on failing API calls and restarts of the operator

Refs == DataRefs \cup SourceRefs

\* What the cache keeps of a RuleSet, and the object it was built from.
Entries == [gen : Nat, skip : BOOLEAN, rules : Seq(Contents)]

ASSUME RuleSetControllerAssumption ==
    /\ Specs \subseteq Seq(Refs)
    /\ NoEntry \notin Entries
    /\ NoRuleSet \notin RuleSets
    /\ MaxLag \in Nat /\ MaxEdits \in Nat /\ MaxDisruptions \in Nat

VARIABLES
    object,      \* RuleSet -> the object in the API server
    log,         \* RuleSet -> its versions the informer has not seen yet
    view,        \* RuleSet -> the version the informer has
    content,     \* reference -> its content in the API server
    contentView, \* reference -> its content in the informer
    queue,       \* the work queue
    retry,       \* items the queue will get back after a delay
    job,         \* the reconciliation the worker is in
    served,      \* the rule set cache, as RulesStore promises it
    lag,         \* how many versions the informer of this run may be behind
    edits, faults, restarts

clusterVars == <<object, log, content>>
viewVars == <<view, contentView>>
bounds == <<lag, edits, faults, restarts>>
vars == <<object, log, view, content, contentView, queue, retry, job, served,
          lag, edits, faults, restarts>>

-----------------------------------------------------------------------------
(* Statuses.  Of the three conditions the reconciler writes four           *)
(* combinations only, which cond names; about is what the message names.   *)

Status(cond, reason, about, gen) ==
    [cond |-> cond, reason |-> reason, about |-> about, gen |-> gen]

NewStatus == Status("none", "none", <<>>, 0)

Progressing(gen) == Status("Progressing", "Reconciling", <<>>, gen)

Degraded(gen, reason, about) == Status("Degraded", reason, about, gen)

\* The Ready message carries the unsupported rules that were let through.
Ready(gen, loaded) ==
    Status("Ready", "RulesCached",
           IF HasUnsupported(loaded) THEN loaded ELSE <<>>, gen)

NotFound(ref) ==
    IF ref \in DataRefs THEN "RuleDataNotFound" ELSE "RuleSourceNotFound"

AccessError(ref) ==
    IF ref \in DataRefs THEN "RuleDataAccessError" ELSE "RuleSourceAccessError"

-----------------------------------------------------------------------------
Missing == [exists |-> FALSE, gen |-> 0, refs |-> <<>>, skip |-> FALSE,
            status |-> NewStatus]

Created(spec, skip) == [exists |-> TRUE, gen |-> 1, refs |-> spec, skip |-> skip,
                        status |-> NewStatus]

Idle == [pc |-> "idle", rs |-> NoRuleSet, obj |-> Missing, loaded |-> <<>>]

\* The operator starts in a cluster that has never been reconciled.
Init ==
    /\ object \in [RuleSets -> {Missing} \cup {Created(s, FALSE) : s \in Specs}]
    /\ content \in [Refs -> Contents \cup {Absent}]
    /\ log = [r \in RuleSets |-> <<>>]
    /\ view = object
    /\ contentView = content
    /\ queue = {r \in RuleSets : object[r].exists}
    /\ retry = {}
    /\ job = Idle
    /\ served = [r \in RuleSets |-> NoEntry]
    /\ lag \in 0..MaxLag
    /\ edits = 0
    /\ faults = 0
    /\ restarts = 0

-----------------------------------------------------------------------------
(* Users.                                                                  *)

\* A new version of a RuleSet: it reaches the informer later, in order.
Store(r, version) ==
    /\ object' = [object EXCEPT ![r] = version]
    /\ log' = [log EXCEPT ![r] = Append(@, version)]

Edit ==
    /\ edits < MaxEdits
    /\ edits' = edits + 1
    /\ UNCHANGED <<view, contentView, queue, retry, job, served, lag, faults, restarts>>

\* Generations go on counting when a RuleSet is created anew, so that they
\* order its incarnations too.
CreateRuleSet(r, spec, skip) ==
    /\ Edit
    /\ ~object[r].exists
    /\ Store(r, [Created(spec, skip) EXCEPT !.gen = object[r].gen + 1])
    /\ UNCHANGED content

DeleteRuleSet(r) ==
    /\ Edit
    /\ object[r].exists
    /\ Store(r, [Missing EXCEPT !.gen = object[r].gen])
    /\ UNCHANGED content

ChangeSpec(r, spec) ==
    /\ Edit
    /\ object[r].exists
    /\ spec # object[r].refs
    /\ Store(r, [object[r] EXCEPT !.refs = spec, !.gen = @ + 1])
    /\ UNCHANGED content

\* Annotations do not count as a new generation.
ChangeAnnotation(r) ==
    /\ Edit
    /\ object[r].exists
    /\ Store(r, [object[r] EXCEPT !.skip = ~@])
    /\ UNCHANGED content

ChangeContent(ref, c) ==
    /\ Edit
    /\ c # content[ref]
    /\ content' = [content EXCEPT ![ref] = c]
    /\ UNCHANGED <<object, log>>

-----------------------------------------------------------------------------
(* Informers and the work queue.                                           *)

\* Mutant of Triggers: a change of the annotation is filtered out.
TriggersOnGeneration(old, new) ==
    old.exists # new.exists \/ old.gen # new.gen

\* The event filter on RuleSets: creation, deletion, a new generation or
\* another value of the skip annotation, but no change of the status.
Triggers(old, new) ==
    old.exists # new.exists \/ old.gen # new.gen \/ old.skip # new.skip

DeliverRuleSet(r) ==
    /\ log[r] # <<>>
    /\ view' = [view EXCEPT ![r] = Head(log[r])]
    /\ log' = [log EXCEPT ![r] = Tail(@)]
    /\ queue' = IF Triggers(view[r], Head(log[r])) THEN queue \cup {r} ELSE queue
    /\ UNCHANGED <<object, content, contentView, retry, job, served, bounds>>

\* Mutant of findRuleSetsBy: only sources are looked up in the index.
findRuleSetsBySource(ref) ==
    {r \in RuleSets : view[r].exists /\ ref \in SourceRefs
                        /\ \E i \in DOMAIN view[r].refs : view[r].refs[i] = ref}

\* Mutant of findRuleSetsBy: RuleSets that are being worked on are left out.
findRuleSetsByUnlessProgressing(ref) ==
    {r \in RuleSets : view[r].exists /\ view[r].status.cond # "Progressing"
                        /\ \E i \in DOMAIN view[r].refs : view[r].refs[i] = ref}

\* The RuleSets that name an object, by the index over the informer.  The List
\* reads the informer's memory, not the API server: it fails, and the event is
\* dropped, only without the index or when the process stops.
findRuleSetsBy(ref) ==
    {r \in RuleSets : view[r].exists
                        /\ \E i \in DOMAIN view[r].refs : view[r].refs[i] = ref}

DeliverContent(ref) ==
    /\ contentView[ref] # content[ref]
    /\ contentView' = [contentView EXCEPT ![ref] = content[ref]]
    /\ queue' = queue \cup findRuleSetsBy(ref)
    /\ UNCHANGED <<clusterVars, view, retry, job, served, bounds>>

RetryDue(r) ==
    /\ r \in retry
    /\ retry' = retry \ {r}
    /\ queue' = queue \cup {r}
    /\ UNCHANGED <<clusterVars, viewVars, job, served, bounds>>

-----------------------------------------------------------------------------
(* The reconciler.                                                         *)

\* The reconciliation ends without, or with, an error.
Done == job' = Idle /\ UNCHANGED retry

Failed == job' = Idle /\ retry' = retry \cup {job.rs}

\* A merge patch of the status: only a difference to the object as it was
\* read is sent, and the patch of an object that is gone fails.
PatchTo(r, obj, status) ==
    /\ object[r].exists
    /\ IF status # obj.status /\ status # object[r].status
       THEN Store(r, [object[r] EXCEPT !.status = status])
       ELSE UNCHANGED <<object, log>>

\* The API server refuses a call: the object is gone, or a passing fault.
CallFails(r) ==
    /\ UNCHANGED <<object, log>>
    /\ \/ ~object[r].exists /\ UNCHANGED faults
       \/ faults + restarts < MaxDisruptions /\ faults' = faults + 1

\* Take an item and read the RuleSet.
Start(r) ==
    /\ job.pc = "idle"
    /\ r \in queue
    /\ Len(log[r]) <= lag
    /\ queue' = queue \ {r}
    /\ job' = IF view[r].exists
              THEN [pc |-> IF view[r].status.cond = "none" THEN "init" ELSE "load",
                    rs |-> r, obj |-> view[r], loaded |-> <<>>]
              ELSE Idle
    /\ UNCHANGED <<clusterVars, viewVars, retry, served, bounds>>

\* The read fails for a reason other than the RuleSet's absence.
StartFails(r) ==
    /\ job.pc = "idle"
    /\ r \in queue
    /\ faults + restarts < MaxDisruptions
    /\ faults' = faults + 1
    /\ queue' = queue \ {r}
    /\ retry' = retry \cup {r}
    /\ UNCHANGED <<clusterVars, viewVars, job, served, lag, edits, restarts>>

\* initializeStatus; the client overwrites what was read with the answer.
InitializeStatus ==
    /\ job.pc = "init"
    /\ \/ /\ PatchTo(job.rs, job.obj, Progressing(job.obj.gen))
          /\ job' = [job EXCEPT !.pc = "load", !.obj = object'[job.rs]]
          /\ UNCHANGED <<retry, faults>>
       \/ CallFails(job.rs) /\ Failed
    /\ UNCHANGED <<content, viewVars, queue, served, lag, edits, restarts>>

\* patchDegraded, after which the reconciliation is over: with an error if
\* the patch fails or the cause is worth a retry.
Degrade(reason, about, retriable) ==
    \/ /\ PatchTo(job.rs, job.obj, Degraded(job.obj.gen, reason, about))
       /\ IF retriable THEN Failed ELSE Done
       /\ UNCHANGED faults
    \/ CallFails(job.rs) /\ Failed

NextRef == job.obj.refs[Len(job.loaded) + 1]

Loading == job.pc = "load" /\ Len(job.loaded) < Len(job.obj.refs)

\* Mutant of Load: the absence of the object goes unnoticed.
LoadAnything ==
    /\ Loading
    /\ job' = [job EXCEPT !.loaded = Append(@, contentView[NextRef])]
    /\ UNCHANGED <<clusterVars, viewVars, queue, retry, served, bounds>>

\* loadData and loadSources, one object at a time.
Load ==
    /\ Loading
    /\ contentView[NextRef] # Absent
    /\ job' = [job EXCEPT !.loaded = Append(@, contentView[NextRef])]
    /\ UNCHANGED <<clusterVars, viewVars, queue, retry, served, bounds>>

LoadMissing ==
    /\ Loading
    /\ contentView[NextRef] = Absent
    /\ Degrade(NotFound(NextRef), <<NextRef>>, FALSE)
    /\ UNCHANGED <<content, viewVars, queue, served, lag, edits, restarts>>

LoadFails ==
    /\ Loading
    /\ faults + restarts < MaxDisruptions
    /\ faults' = faults + 1
    /\ \/ PatchTo(job.rs, job.obj,
                  Degraded(job.obj.gen, AccessError(NextRef), <<NextRef>>))
       \/ UNCHANGED <<object, log>>
    /\ Failed
    /\ UNCHANGED <<content, viewVars, queue, served, lag, edits, restarts>>

Loaded == job.pc = "load" /\ Len(job.loaded) = Len(job.obj.refs)

\* Mutant of RejectInvalid: the cached rules go with the rejected ones.
RejectInvalidEvicts ==
    /\ Loaded
    /\ ~Compiles(job.loaded)
    /\ Degrade("InvalidRuleSet", job.loaded, TRUE)
    /\ served' = [served EXCEPT ![job.rs] = NoEntry]
    /\ UNCHANGED <<content, viewVars, queue, lag, edits, restarts>>

\* validateAggregatedRules.
RejectInvalid ==
    /\ Loaded
    /\ ~Compiles(job.loaded)
    /\ Degrade("InvalidRuleSet", job.loaded, TRUE)
    /\ UNCHANGED <<content, viewVars, queue, served, lag, edits, restarts>>

Accepted(obj, loaded) ==
    Compiles(loaded) /\ (HasUnsupported(loaded) => obj.skip)

\* rejectUnsupportedRules.
RejectUnsupported ==
    /\ Loaded
    /\ Compiles(job.loaded)
    /\ ~Accepted(job.obj, job.loaded)
    /\ Degrade("UnsupportedRules", job.loaded, FALSE)
    /\ UNCHANGED <<content, viewVars, queue, served, lag, edits, restarts>>

\* Mutant of PutRules: nothing is put for a generation whose status is known.
PutRulesUnlessObserved ==
    /\ Loaded
    /\ Accepted(job.obj, job.loaded)
    /\ served' = IF job.obj.status.gen = job.obj.gen THEN served
                 ELSE [served EXCEPT ![job.rs] =
                         [gen |-> job.obj.gen, skip |-> job.obj.skip,
                          rules |-> job.loaded]]
    /\ job' = [job EXCEPT !.pc = "ready"]
    /\ UNCHANGED <<clusterVars, viewVars, queue, retry, bounds>>

\* cacheRules: the Put, then the patch.
PutRules ==
    /\ Loaded
    /\ Accepted(job.obj, job.loaded)
    /\ served' = [served EXCEPT ![job.rs] =
                    [gen |-> job.obj.gen, skip |-> job.obj.skip,
                     rules |-> job.loaded]]
    /\ job' = [job EXCEPT !.pc = "ready"]
    /\ UNCHANGED <<clusterVars, viewVars, queue, retry, bounds>>

PatchReady ==
    /\ job.pc = "ready"
    /\ \/ /\ PatchTo(job.rs, job.obj, Ready(job.obj.gen, job.loaded))
          /\ Done
          /\ UNCHANGED faults
       \/ CallFails(job.rs) /\ Failed
    /\ UNCHANGED <<content, viewVars, queue, served, lag, edits, restarts>>

\* The operator dies and comes back: the cache, the queue and the running
\* reconciliation are lost, every RuleSet is listed and queued again.
Restart ==
    /\ faults + restarts < MaxDisruptions
    /\ restarts' = restarts + 1
    /\ served' = [r \in RuleSets |-> NoEntry]
    /\ job' = Idle
    /\ retry' = {}
    /\ queue' = {r \in RuleSets : object[r].exists}
    /\ view' = object
    /\ log' = [r \in RuleSets |-> <<>>]
    /\ contentView' = content
    /\ UNCHANGED <<object, content, lag, edits, faults>>

-----------------------------------------------------------------------------
Users ==
    \/ \E r \in RuleSets : DeleteRuleSet(r) \/ ChangeAnnotation(r)
    \/ \E r \in RuleSets, spec \in Specs, skip \in BOOLEAN : CreateRuleSet(r, spec, skip)
    \/ \E r \in RuleSets, spec \in Specs : ChangeSpec(r, spec)
    \/ \E ref \in Refs, c \in Contents \cup {Absent} : ChangeContent(ref, c)

Work ==
    \/ \E r \in RuleSets : Start(r) \/ StartFails(r)
    \/ InitializeStatus \/ Load \/ LoadMissing \/ LoadFails
    \/ RejectInvalid \/ RejectUnsupported \/ PutRules \/ PatchReady

Next ==
    \/ Users
    \/ \E r \in RuleSets : DeliverRuleSet(r) \/ RetryDue(r)
    \/ \E ref \in Refs : DeliverContent(ref)
    \/ Work
    \/ Restart

Spec == Init /\ [][Next]_vars

\* Watches deliver, delays end and the worker works; users, faults and
\* restarts owe nothing.
FairSpec ==
    /\ Spec
    /\ WF_vars(Work)
    /\ \A r \in RuleSets : WF_vars(DeliverRuleSet(r)) /\ WF_vars(RetryDue(r))
    /\ \A ref \in Refs : WF_vars(DeliverContent(ref))

-----------------------------------------------------------------------------
(* Properties.                                                             *)

Current(r) == [i \in DOMAIN object[r].refs |-> content[object[r].refs[i]]]

Complete(r) == \A i \in DOMAIN object[r].refs : content[object[r].refs[i]] # Absent

Reasons == {"none", "Reconciling", "RulesCached", "InvalidRuleSet", "UnsupportedRules",
            "RuleDataNotFound", "RuleSourceNotFound",
            "RuleDataAccessError", "RuleSourceAccessError"}

Statuses == [cond : {"none", "Progressing", "Degraded", "Ready"},
             reason : Reasons, about : Seq(Refs \cup Contents), gen : Nat]

Versions == [exists : BOOLEAN, gen : Nat, refs : Specs \cup {<<>>},
             skip : BOOLEAN, status : Statuses]

Jobs == [pc : {"idle", "init", "load", "ready"}, rs : RuleSets \cup {NoRuleSet},
         obj : Versions, loaded : Seq(Contents)]

TypeOK ==
    /\ object \in [RuleSets -> Versions]
    /\ log \in [RuleSets -> Seq(Versions)]
    /\ view \in [RuleSets -> Versions]
    /\ content \in [Refs -> Contents \cup {Absent}]
    /\ contentView \in [Refs -> Contents \cup {Absent}]
    /\ queue \subseteq RuleSets /\ retry \subseteq RuleSets
    /\ job \in Jobs /\ (job.pc = "idle" <=> job.rs = NoRuleSet)
    /\ served \in [RuleSets -> Entries \cup {NoEntry}]
    /\ lag \in 0..MaxLag
    /\ edits \in Nat /\ faults \in Nat /\ restarts \in Nat

\* The reconciler has not finished with this RuleSet.
Pending(r) == r \in queue \/ r \in retry \/ job.rs = r

\* The contents that the informers show for a RuleSet.
Shown(r) == [i \in DOMAIN view[r].refs |-> contentView[view[r].refs[i]]]

\* Rules put together from contents that never existed at the same time, or
\* from a RuleSet and contents of different times, are in the cache only while
\* the RuleSet is still to be reconciled: once it is at rest, the cache has just
\* what the informers show, if that is acceptable.  Every edit that falls into
\* the reads of a reconciliation has to find its way back into the queue,
\* through the predicates or the index over the informer.
NothingTornAtRest ==
    \A r \in RuleSets :
        ~Pending(r) /\ log[r] = <<>> /\ view[r].exists
        /\ (\A i \in DOMAIN Shown(r) : Shown(r)[i] # Absent) /\ Accepted(view[r], Shown(r))
            => served[r] = [gen |-> view[r].gen, skip |-> view[r].skip, rules |-> Shown(r)]

\* A RuleSet that says it is Ready has rules in the cache ("Ready": "the rules
\* have been cached", api/v1alpha1/ruleset_types.go) and, where RuleSets are
\* read up to date, rules of the generation it was observed at or a later one.
\* Only a process that has just started may still owe them, and only while
\* the RuleSet is waiting for it.
ReadyIsCached ==
    \A r \in RuleSets : object[r].exists /\ object[r].status.cond = "Ready" =>
        IF served[r] = NoEntry THEN restarts > 0 /\ Pending(r)
        ELSE lag = 0 => served[r].gen >= object[r].status.gen

\* Once served, rules are never taken away and, where RuleSets are read up to
\* date, never replaced by rules of an older generation, whatever becomes of
\* later revisions, of the referenced objects or of the RuleSet itself; only
\* the death of the process loses them.
LastKnownGoodKept ==
    [][\A r \in RuleSets : served[r] # NoEntry /\ restarts' = restarts =>
         /\ served'[r] # NoEntry
         /\ lag = 0 => served'[r].gen >= served[r].gen]_vars

\* When edits end and the RuleSet as it stands is acceptable, the cache ends
\* up with exactly its rules and stays there, although reads were stale,
\* torn between edits, failed, or lost in a restart.
ServedConverges ==
    \A r \in RuleSets :
        <>[](object[r].exists /\ Complete(r) /\ Accepted(object[r], Current(r)) =>
               served[r] # NoEntry /\ served[r].rules = Current(r))

\* The condition the RuleSet as it stands deserves.
DeservedCond(r) ==
    IF Complete(r) /\ Accepted(object[r], Current(r)) THEN "Ready" ELSE "Degraded"

\* When edits end, the status ends up telling what has become of the RuleSet
\* (docs/content/reference/status-conditions.md: a RuleSet is Degraded with
\* RuleSourceNotFound while the RuleSource does not exist).
StatusConverges ==
    \A r \in RuleSets :
        <>[](object[r].exists => object[r].status.cond = DeservedCond(r))

\* The same of a reconciler that reads its RuleSets up to date.
StatusConvergesFresh == lag = 0 => StatusConverges
=============================================================================
