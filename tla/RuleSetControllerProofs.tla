---------------------- MODULE RuleSetControllerProofs -----------------------
(***************************************************************************)
(* What the RuleSet reconciler leaves in the cache and in the status, for  *)
(* any RuleSets, references and contents, any number of edits, faults and  *)
(* restarts and any lag of the informer.                                   *)
(***************************************************************************)
EXTENDS RuleSetController, SequenceTheorems, TLAPS

-----------------------------------------------------------------------------
(* Types.                                                                  *)

\* The statuses the reconciler writes are statuses.
LEMMA StatusTypes ==
  /\ NewStatus \in Statuses
  /\ \A gen \in Nat : Progressing(gen) \in Statuses
  /\ \A gen \in Nat, reason \in Reasons, about \in Seq(Refs \cup Contents) :
       Degraded(gen, reason, about) \in Statuses
  /\ \A gen \in Nat, loaded \in Seq(Contents) : Ready(gen, loaded) \in Statuses
  BY DEF NewStatus, Progressing, Degraded, Ready, Status, Statuses, Reasons

\* The absent RuleSet and the idle worker are well-formed.
LEMMA MissingType == Missing \in Versions /\ Idle \in Jobs
  BY StatusTypes DEF Missing, Versions, Idle, Jobs

\* So is what a user creates.
LEMMA CreatedType ==
  \A spec \in Specs, skip \in BOOLEAN : Created(spec, skip) \in Versions
  BY StatusTypes DEF Created, Versions

\* What users change in a version.
LEMMA EditedType ==
  ASSUME NEW v \in Versions, NEW gen \in Nat, NEW spec \in Specs
  PROVE  /\ [v EXCEPT !.gen = gen] \in Versions
         /\ [v EXCEPT !.refs = spec, !.gen = gen] \in Versions
         /\ [v EXCEPT !.skip = ~@] \in Versions
  BY DEF Versions

\* Storing a version keeps the types of the object and of its history.
LEMMA StoreType ==
  ASSUME TypeOK, NEW r \in RuleSets, NEW version \in Versions, Store(r, version)
  PROVE  object' \in [RuleSets -> Versions] /\ log' \in [RuleSets -> Seq(Versions)]
  BY DEF TypeOK, Store

\* A patch of the status keeps the types.
LEMMA PatchType ==
  ASSUME TypeOK, NEW r \in RuleSets, NEW obj, NEW status \in Statuses,
         PatchTo(r, obj, status)
  PROVE  object' \in [RuleSets -> Versions] /\ log' \in [RuleSets -> Seq(Versions)]
  <1>1. [object[r] EXCEPT !.status = status] \in Versions
    BY DEF TypeOK, Versions
  <1>2. CASE Store(r, [object[r] EXCEPT !.status = status])
    BY <1>1, <1>2, StoreType
  <1>3. CASE UNCHANGED <<object, log>>
    BY <1>3 DEF TypeOK
  <1> QED BY <1>2, <1>3 DEF PatchTo

\* patchDegraded ends the reconciliation and keeps the types.
LEMMA DegradeType ==
  ASSUME TypeOK, job.pc # "idle", NEW reason \in Reasons,
         NEW about \in Seq(Refs \cup Contents), NEW retriable \in BOOLEAN,
         Degrade(reason, about, retriable)
  PROVE  /\ object' \in [RuleSets -> Versions] /\ log' \in [RuleSets -> Seq(Versions)]
         /\ retry' \subseteq RuleSets
         /\ job' = Idle
         /\ faults' \in Nat
  <1>1. job.rs \in RuleSets /\ job.obj.gen \in Nat
    BY DEF TypeOK, Jobs, Versions
  <1>2. CASE CallFails(job.rs) /\ Failed
    BY <1>1, <1>2 DEF CallFails, Failed, TypeOK
  <1>3. CASE /\ PatchTo(job.rs, job.obj, Degraded(job.obj.gen, reason, about))
             /\ IF retriable THEN Failed ELSE Done
             /\ UNCHANGED faults
    <2>1. Degraded(job.obj.gen, reason, about) \in Statuses
      BY <1>1, StatusTypes
    <2>2. object' \in [RuleSets -> Versions] /\ log' \in [RuleSets -> Seq(Versions)]
      BY <1>1, <1>3, <2>1, PatchType
    <2> QED BY <1>1, <1>3, <2>2 DEF Failed, Done, TypeOK
  <1> QED BY <1>2, <1>3 DEF Degrade

\* The end of a reconciliation leaves an idle worker.
LEMMA IdleType ==
  job' = Idle => job' \in Jobs /\ (job'.pc = "idle" <=> job'.rs = NoRuleSet)
  BY MissingType DEF Idle

\* The reference to load next.
LEMMA NextRefType ==
  ASSUME TypeOK, Loading
  PROVE  NextRef \in Refs /\ <<NextRef>> \in Seq(Refs \cup Contents)
  <1>1. job.obj.refs \in Seq(Refs)
    <2>1. job.obj.refs \in Specs \/ job.obj.refs = <<>>
      BY DEF TypeOK, Jobs, Versions
    <2>2. <<>> \in Seq(Refs)
      OBVIOUS
    <2> QED BY <2>1, <2>2, RuleSetControllerAssumption
  <1>2. Len(job.loaded) + 1 \in 1..Len(job.obj.refs)
    BY <1>1 DEF TypeOK, Jobs, Loading
  <1>3. NextRef \in Refs
    BY <1>1, <1>2 DEF NextRef
  <1> QED BY <1>3

\* The initial state is well-typed.
LEMMA TypeInit == Init => TypeOK
  <1> SUFFICES ASSUME Init PROVE TypeOK
    OBVIOUS
  <1>1. object \in [RuleSets -> Versions] /\ view \in [RuleSets -> Versions]
    <2>1. {Missing} \cup {Created(s, FALSE) : s \in Specs} \subseteq Versions
      BY MissingType, CreatedType
    <2> QED BY <2>1 DEF Init
  <1>2. job \in Jobs /\ (job.pc = "idle" <=> job.rs = NoRuleSet)
    BY MissingType DEF Init, Idle
  <1> QED BY <1>1, <1>2 DEF Init, TypeOK

\* Users' edits keep the types.
LEMMA UsersType == TypeOK /\ Users => TypeOK'
  <1> SUFFICES ASSUME TypeOK, Users PROVE TypeOK'
    OBVIOUS
  <1>0. Edit => /\ UNCHANGED <<view, contentView, queue, retry, job, served, lag,
                             faults, restarts>>
                /\ edits' \in Nat
    BY DEF Edit, TypeOK
  <1>1. ASSUME NEW r \in RuleSets, NEW version \in Versions, Store(r, version),
               Edit, UNCHANGED content
        PROVE  TypeOK'
    <2>1. object' \in [RuleSets -> Versions] /\ log' \in [RuleSets -> Seq(Versions)]
      BY <1>1, StoreType
    <2> QED BY <1>0, <1>1, <2>1 DEF TypeOK
  <1>2. ASSUME NEW r \in RuleSets, DeleteRuleSet(r) PROVE TypeOK'
    <2>1. [Missing EXCEPT !.gen = object[r].gen] \in Versions
      BY MissingType DEF TypeOK, Versions
    <2> QED BY <1>1, <1>2, <2>1 DEF DeleteRuleSet
  <1>3. ASSUME NEW r \in RuleSets, ChangeAnnotation(r) PROVE TypeOK'
    <2>1. [object[r] EXCEPT !.skip = ~@] \in Versions
      BY DEF TypeOK, Versions
    <2> QED BY <1>1, <1>3, <2>1 DEF ChangeAnnotation
  <1>4. ASSUME NEW r \in RuleSets, NEW spec \in Specs, NEW skip \in BOOLEAN,
               CreateRuleSet(r, spec, skip)
        PROVE  TypeOK'
    <2>1. [Created(spec, skip) EXCEPT !.gen = object[r].gen + 1] \in Versions
      <3>1. object[r].gen + 1 \in Nat
        BY DEF TypeOK, Versions
      <3> QED BY <3>1, CreatedType, EditedType
    <2> QED BY <1>1, <1>4, <2>1 DEF CreateRuleSet
  <1>5. ASSUME NEW r \in RuleSets, NEW spec \in Specs, ChangeSpec(r, spec)
        PROVE  TypeOK'
    <2>1. [object[r] EXCEPT !.refs = spec, !.gen = @ + 1] \in Versions
      <3>1. object[r] \in Versions /\ object[r].gen + 1 \in Nat
        BY DEF TypeOK, Versions
      <3>2. [object[r] EXCEPT !.refs = spec, !.gen = object[r].gen + 1] \in Versions
        BY <3>1, EditedType
      <3> QED BY <3>2
    <2> QED BY <1>1, <1>5, <2>1 DEF ChangeSpec
  <1>6. ASSUME NEW ref \in Refs, NEW c \in Contents \cup {Absent}, ChangeContent(ref, c)
        PROVE  TypeOK'
    BY <1>0, <1>6 DEF ChangeContent, TypeOK
  <1> QED BY <1>2, <1>3, <1>4, <1>5, <1>6 DEF Users

\* So does every step of the reconciler.
LEMMA WorkType == TypeOK /\ Work => TypeOK'
  <1> SUFFICES ASSUME TypeOK, Work PROVE TypeOK'
    OBVIOUS
  <1>0. job.pc # "idle" =>
          job.rs \in RuleSets /\ job.obj \in Versions /\ job.obj.gen \in Nat
    BY DEF TypeOK, Jobs, Versions
  <1>1. ASSUME NEW r \in RuleSets, Start(r) PROVE TypeOK'
    <2>1. job' \in Jobs /\ (job'.pc = "idle" <=> job'.rs = NoRuleSet)
      <3>1. CASE view[r].exists
        BY <1>1, <3>1, RuleSetControllerAssumption DEF Start, TypeOK, Jobs
      <3>2. CASE ~view[r].exists
        BY <1>1, <3>2, IdleType DEF Start
      <3> QED BY <3>1, <3>2
    <2> QED BY <1>1, <2>1 DEF Start, clusterVars, viewVars, bounds, TypeOK
  <1>2. ASSUME NEW r \in RuleSets, StartFails(r) PROVE TypeOK'
    BY <1>2 DEF StartFails, clusterVars, viewVars, TypeOK
  <1>3. CASE InitializeStatus
    <2>1. job.rs \in RuleSets /\ job.obj.gen \in Nat
      BY <1>0, <1>3 DEF InitializeStatus
    <2>2. CASE CallFails(job.rs) /\ Failed
      BY <1>3, <2>1, <2>2, IdleType
      DEF InitializeStatus, CallFails, Failed, viewVars, TypeOK
    <2>3. CASE /\ PatchTo(job.rs, job.obj, Progressing(job.obj.gen))
               /\ job' = [job EXCEPT !.pc = "load", !.obj = object'[job.rs]]
               /\ UNCHANGED <<retry, faults>>
      <3>1. object' \in [RuleSets -> Versions] /\ log' \in [RuleSets -> Seq(Versions)]
        BY <2>1, <2>3, StatusTypes, PatchType
      <3>2. job' \in Jobs /\ (job'.pc = "idle" <=> job'.rs = NoRuleSet)
        BY <2>1, <2>3, <3>1, RuleSetControllerAssumption DEF TypeOK, Jobs
      <3> QED BY <1>3, <2>3, <3>1, <3>2 DEF InitializeStatus, viewVars, TypeOK
    <2> QED BY <1>3, <2>2, <2>3 DEF InitializeStatus
  <1>4. CASE Load
    <2>1. contentView[NextRef] \in Contents
      BY <1>4, NextRefType DEF Load, TypeOK
    <2>2. Append(job.loaded, contentView[NextRef]) \in Seq(Contents)
      BY <2>1 DEF TypeOK, Jobs
    <2>3. job' \in Jobs /\ job'.pc = job.pc /\ job'.rs = job.rs
      BY <1>4, <2>2 DEF Load, TypeOK, Jobs
    <2> QED BY <1>4, <2>3 DEF Load, clusterVars, viewVars, bounds, TypeOK
  <1>5. ASSUME NEW reason \in Reasons, NEW about \in Seq(Refs \cup Contents),
               NEW retriable \in BOOLEAN,
               job.pc # "idle", Degrade(reason, about, retriable),
               UNCHANGED <<content, viewVars, queue, served, lag, edits, restarts>>
        PROVE  TypeOK'
    BY <1>5, DegradeType, IdleType DEF viewVars, TypeOK
  <1>6. CASE LoadMissing
    <2>1. NotFound(NextRef) \in Reasons
      BY DEF NotFound, Reasons
    <2> QED BY <1>5, <1>6, <2>1, NextRefType DEF LoadMissing, Loading
  <1>7. CASE LoadFails
    <2>1. job.rs \in RuleSets /\ job.obj.gen \in Nat
      BY <1>0, <1>7 DEF LoadFails, Loading
    <2>2. AccessError(NextRef) \in Reasons
      BY DEF AccessError, Reasons
    <2>3. Degraded(job.obj.gen, AccessError(NextRef), <<NextRef>>) \in Statuses
      BY <1>7, <2>1, <2>2, NextRefType, StatusTypes DEF LoadFails
    <2>4. object' \in [RuleSets -> Versions] /\ log' \in [RuleSets -> Seq(Versions)]
      BY <1>7, <2>1, <2>3, PatchType DEF LoadFails, TypeOK
    <2> QED BY <1>7, <2>1, <2>4, IdleType DEF LoadFails, Failed, viewVars, TypeOK
  <1>8. job.loaded \in Seq(Refs \cup Contents)
    BY DEF TypeOK, Jobs
  <1>9. CASE RejectInvalid
    BY <1>5, <1>8, <1>9 DEF RejectInvalid, Loaded, Reasons
  <1>10. CASE RejectUnsupported
    BY <1>5, <1>8, <1>10 DEF RejectUnsupported, Loaded, Reasons
  <1>11. CASE PutRules
    <2>1. [gen |-> job.obj.gen, skip |-> job.obj.skip, rules |-> job.loaded] \in Entries
      BY DEF TypeOK, Jobs, Versions, Entries
    <2>2. job' \in Jobs /\ (job'.pc = "idle" <=> job'.rs = NoRuleSet)
      BY <1>11 DEF PutRules, Loaded, TypeOK, Jobs
    <2> QED BY <1>11, <2>1, <2>2 DEF PutRules, clusterVars, viewVars, bounds, TypeOK
  <1>12. CASE PatchReady
    <2>1. job.rs \in RuleSets /\ job.obj.gen \in Nat
      BY <1>0, <1>12 DEF PatchReady
    <2>2. CASE CallFails(job.rs) /\ Failed
      BY <1>12, <2>1, <2>2, IdleType DEF PatchReady, CallFails, Failed, viewVars, TypeOK
    <2>3. CASE /\ PatchTo(job.rs, job.obj, Ready(job.obj.gen, job.loaded))
               /\ Done
               /\ UNCHANGED faults
      <3>0. Ready(job.obj.gen, job.loaded) \in Statuses
        BY <2>1, StatusTypes DEF TypeOK, Jobs
      <3>1. object' \in [RuleSets -> Versions] /\ log' \in [RuleSets -> Seq(Versions)]
        BY <2>1, <2>3, <3>0, PatchType
      <3> QED BY <1>12, <2>3, <3>1, IdleType DEF PatchReady, Done, viewVars, TypeOK
    <2> QED BY <1>12, <2>2, <2>3 DEF PatchReady
  <1> QED
    BY <1>1, <1>2, <1>3, <1>4, <1>6, <1>7, <1>9, <1>10, <1>11, <1>12 DEF Work

\* So does every step.
LEMMA TypeNext == TypeOK /\ [Next]_vars => TypeOK'
  <1> SUFFICES ASSUME TypeOK, [Next]_vars PROVE TypeOK'
    OBVIOUS
  <1>1. ASSUME NEW r \in RuleSets, DeliverRuleSet(r) PROVE TypeOK'
    <2>1. Head(log[r]) \in Versions /\ Tail(log[r]) \in Seq(Versions)
      BY <1>1 DEF DeliverRuleSet, TypeOK
    <2> QED BY <1>1, <2>1 DEF DeliverRuleSet, bounds, TypeOK
  <1>2. ASSUME NEW r \in RuleSets, RetryDue(r) PROVE TypeOK'
    BY <1>2 DEF RetryDue, clusterVars, viewVars, bounds, TypeOK
  <1>3. ASSUME NEW ref \in Refs, DeliverContent(ref) PROVE TypeOK'
    BY <1>3 DEF DeliverContent, findRuleSetsBy, clusterVars, bounds, TypeOK
  <1>4. CASE Restart
    BY <1>4, IdleType DEF Restart, TypeOK
  <1>5. CASE UNCHANGED vars
    BY <1>5 DEF vars, TypeOK
  <1> QED BY <1>1, <1>2, <1>3, <1>4, <1>5, UsersType, WorkType DEF Next

\* TypeOK for every value of the constants: no step of users, informers, queue
\* or reconciler leaves an ill-formed object, job or cache entry behind.
THEOREM TypeCorrect == Spec => []TypeOK
  BY TypeInit, TypeNext, PTL DEF Spec

-----------------------------------------------------------------------------
(* The inductive invariant.                                                *)

\* The informer is behind but in order, and the cache is never ahead of the
\* API server.
HistoryOrdered ==
  \A r \in RuleSets :
    /\ object[r].status.gen <= object[r].gen
    /\ view[r].gen <= object[r].gen
    /\ log[r] = <<>> => view[r] = object[r]
    /\ log[r] # <<>> => log[r][Len(log[r])] = object[r]
    /\ \A i \in DOMAIN log[r] : log[r][i].gen <= object[r].gen
    /\ served[r] # NoEntry => served[r].gen <= object[r].gen

\* What a reconciliation works with, next to what has happened around it.
JobOrdered ==
  job.pc # "idle" =>
    /\ job.obj.gen <= object[job.rs].gen
    /\ job.pc = "ready" =>
         served[job.rs] # NoEntry /\ served[job.rs].gen = job.obj.gen
    /\ lag = 0 =>
         /\ object[job.rs].status.gen <= job.obj.gen
         /\ served[job.rs] # NoEntry => served[job.rs].gen <= job.obj.gen

\* A RuleSet that says Ready while nothing is cached said so before the process
\* started, and every copy of it that is about still says so.
Owed(r) ==
  /\ restarts > 0
  /\ Pending(r)
  /\ view[r].exists /\ view[r].status.cond = "Ready"
  /\ \A i \in DOMAIN log[r] : log[r][i].exists /\ log[r][i].status.cond = "Ready"
  /\ job.rs = r => job.pc = "load" /\ job.obj.status.cond = "Ready"

ReadyOwed ==
  \A r \in RuleSets : object[r].exists /\ object[r].status.cond = "Ready" =>
    /\ served[r] = NoEntry => Owed(r)
    /\ served[r] # NoEntry /\ lag = 0 => served[r].gen >= object[r].status.gen

OrderInv == HistoryOrdered /\ JobOrdered /\ ReadyOwed

Inv == TypeOK /\ OrderInv

-----------------------------------------------------------------------------
(* What storing a version does.                                            *)

\* The version is the object, and the last the informer will see.
LEMMA StoreEffect ==
  ASSUME TypeOK, NEW r \in RuleSets, NEW version \in Versions, Store(r, version)
  PROVE  /\ object'[r] = version
         /\ log'[r] = Append(log[r], version)
         /\ log'[r] # <<>>
         /\ log'[r][Len(log'[r])] = version
         /\ \A i \in DOMAIN log'[r] :
              (i \in DOMAIN log[r] /\ log'[r][i] = log[r][i]) \/ log'[r][i] = version
         /\ \A s \in RuleSets : s # r => object'[s] = object[s] /\ log'[s] = log[s]
  <1>1. /\ object'[r] = version
        /\ log'[r] = Append(log[r], version)
        /\ \A s \in RuleSets : s # r => object'[s] = object[s] /\ log'[s] = log[s]
    BY DEF TypeOK, Store
  <1>2. log[r] \in Seq(Versions)
    BY DEF TypeOK
  <1>3. Len(log'[r]) = Len(log[r]) + 1 /\ Len(log[r]) \in Nat
    BY <1>1, <1>2
  <1>4. log'[r] # <<>> /\ log'[r][Len(log'[r])] = version
    BY <1>1, <1>2, <1>3
  <1>5. ASSUME NEW i \in DOMAIN log'[r]
        PROVE  (i \in DOMAIN log[r] /\ log'[r][i] = log[r][i]) \/ log'[r][i] = version
    BY <1>1, <1>2, <1>3, <1>5
  <1> QED BY <1>1, <1>4, <1>5

\* A newer version keeps the history in order.
LEMMA HistoryStep ==
  ASSUME TypeOK, HistoryOrdered, NEW r \in RuleSets, NEW version \in Versions,
         Store(r, version), version.gen >= object[r].gen,
         version.status.gen <= version.gen, UNCHANGED <<view, served>>
  PROVE  HistoryOrdered'
  <1> SUFFICES ASSUME NEW s \in RuleSets
               PROVE  /\ object'[s].status.gen <= object'[s].gen
                      /\ view'[s].gen <= object'[s].gen
                      /\ log'[s] = <<>> => view'[s] = object'[s]
                      /\ log'[s] # <<>> => log'[s][Len(log'[s])] = object'[s]
                      /\ \A i \in DOMAIN log'[s] : log'[s][i].gen <= object'[s].gen
                      /\ served'[s] # NoEntry => served'[s].gen <= object'[s].gen
    BY DEF HistoryOrdered
  <1>1. CASE s # r
    BY <1>1, StoreEffect DEF HistoryOrdered
  <1>2. CASE s = r
    <2>1. version.gen \in Nat /\ object[r].gen \in Nat /\ view[r].gen \in Nat
      BY DEF TypeOK, Versions
    <2>2. served[r] # NoEntry => served[r].gen \in Nat
      BY DEF TypeOK, Entries
    <2>3. \A i \in DOMAIN log[r] : log[r][i].gen \in Nat
      <3>1. log[r] \in Seq(Versions)
        BY DEF TypeOK
      <3>2. \A i \in DOMAIN log[r] : log[r][i] \in Versions
        BY <3>1
      <3> QED BY <3>2 DEF Versions
    <2>4. \A i \in DOMAIN log'[r] : log'[r][i].gen <= version.gen
      BY <2>1, <2>3, StoreEffect DEF HistoryOrdered
    <2> QED BY <1>2, <2>1, <2>2, <2>4, StoreEffect DEF HistoryOrdered
  <1> QED BY <1>1, <1>2

\* A merge patch stores the status, or it is empty: the status is the one read
\* or the one stored.
LEMMA PatchEffect ==
  ASSUME TypeOK, NEW r \in RuleSets, NEW obj, NEW status \in Statuses,
         PatchTo(r, obj, status)
  PROVE  /\ object[r].exists
         /\ \/ /\ Store(r, [object[r] EXCEPT !.status = status])
               /\ [object[r] EXCEPT !.status = status] \in Versions
            \/ /\ UNCHANGED <<object, log>>
               /\ status = obj.status \/ status = object[r].status
  BY DEF PatchTo, TypeOK, Versions

\* Generations are numbers.
LEMMA GenTypes ==
  ASSUME TypeOK
  PROVE  /\ job.obj.gen \in Nat
         /\ \A r \in RuleSets :
              /\ object[r].gen \in Nat /\ object[r].status.gen \in Nat
              /\ served[r] # NoEntry => served[r].gen \in Nat
  BY DEF TypeOK, Jobs, Versions, Statuses, Entries

\* A step that ends the reconciliation without touching objects: the item comes
\* back later.
LEMMA FailedStep ==
  ASSUME Inv, job.pc # "idle", Failed,
         UNCHANGED <<object, log, view, queue, served, lag, restarts>>
  PROVE  OrderInv'
  <1>1. HistoryOrdered'
    BY DEF Inv, OrderInv, HistoryOrdered
  <1>2. JobOrdered'
    BY DEF Failed, Idle, JobOrdered
  <1>3. \A r \in RuleSets : Pending(r) => Pending(r)'
    BY DEF Pending, Failed
  <1>4. \A r \in RuleSets : job'.rs # r
    BY RuleSetControllerAssumption DEF Failed, Idle
  <1>5. ReadyOwed'
    BY <1>3, <1>4 DEF Inv, OrderInv, ReadyOwed, Owed
  <1> QED BY <1>1, <1>2, <1>5 DEF OrderInv

\* A step that ends the reconciliation with a patch of the status.
LEMMA EndStep ==
  ASSUME Inv, job.pc # "idle", NEW status \in Statuses, status.gen = job.obj.gen,
         PatchTo(job.rs, job.obj, status),
         \/ status.cond # "Ready" /\ job.pc = "load"
         \/ job.pc = "ready",
         job' = Idle, retry \subseteq retry',
         UNCHANGED <<view, queue, served, lag, restarts>>
  PROVE  OrderInv'
  <1> DEFINE r == job.rs
  <1>0. TypeOK /\ HistoryOrdered /\ JobOrdered /\ ReadyOwed /\ r \in RuleSets
    BY DEF Inv, OrderInv, TypeOK, Jobs
  <1>1. JobOrdered'
    BY DEF Idle, JobOrdered
  <1>2. \A s \in RuleSets : job'.rs # s
    BY RuleSetControllerAssumption DEF Idle
  <1>3. \A s \in RuleSets : s # r /\ Pending(s) => Pending(s)'
    BY DEF Pending
  <1>4. ASSUME NEW s \in RuleSets, s # r, object'[s] = object[s], log'[s] = log[s],
               object'[s].exists, object'[s].status.cond = "Ready"
        PROVE  /\ served'[s] = NoEntry => Owed(s)'
               /\ served'[s] # NoEntry /\ lag' = 0 => served'[s].gen >= object'[s].status.gen
    BY <1>0, <1>2, <1>3, <1>4 DEF ReadyOwed, Owed
  <1>5. CASE UNCHANGED <<object, log>> /\ (status = job.obj.status \/ status = object[r].status)
    <2>1. HistoryOrdered'
      BY <1>0, <1>5 DEF HistoryOrdered
    <2>2. ASSUME object[r].exists, object[r].status.cond = "Ready", served[r] = NoEntry
          PROVE  FALSE
      BY <1>0, <1>5, <2>2 DEF ReadyOwed, Owed, JobOrdered
    <2>3. ReadyOwed'
      BY <1>0, <1>4, <1>5, <2>2 DEF ReadyOwed
    <2> QED BY <1>1, <2>1, <2>3 DEF OrderInv
  <1>6. CASE /\ Store(r, [object[r] EXCEPT !.status = status])
             /\ [object[r] EXCEPT !.status = status] \in Versions
    <2> DEFINE version == [object[r] EXCEPT !.status = status]
    <2>1. version.gen = object[r].gen /\ version.status = status /\ version.exists = object[r].exists
      BY <1>0 DEF TypeOK, Versions
    <2>2. status.gen <= version.gen /\ version.gen >= object[r].gen
      BY <1>0, <2>1, GenTypes DEF JobOrdered
    <2>3. version \in Versions /\ version.status.gen <= version.gen
      BY <1>6, <2>1, <2>2
    <2> HIDE DEF version
    <2>4. HistoryOrdered'
      BY <1>0, <1>6, <2>2, <2>3, HistoryStep DEF version
    <2>5. object'[r] = version /\ \A s \in RuleSets :
             s # r => object'[s] = object[s] /\ log'[s] = log[s]
      BY <1>0, <1>6, <2>3, StoreEffect DEF version
    <2>6. ASSUME status.cond = "Ready"
          PROVE  served[r] # NoEntry /\ served[r].gen = status.gen /\ status.gen \in Nat
      BY <1>0, <2>6, GenTypes DEF JobOrdered
    <2>7. ReadyOwed'
      <3> SUFFICES ASSUME NEW s \in RuleSets, object'[s].exists,
                          object'[s].status.cond = "Ready"
                   PROVE  /\ served'[s] = NoEntry => Owed(s)'
                          /\ served'[s] # NoEntry /\ lag' = 0 =>
                               served'[s].gen >= object'[s].status.gen
        BY DEF ReadyOwed
      <3>1. CASE s # r
        BY <1>4, <2>5, <3>1
      <3>2. CASE s = r
        <4>1. object'[s].status = status
          BY <2>1, <2>5, <3>2 DEF version
        <4> QED BY <2>6, <3>2, <4>1
      <3> QED BY <3>1, <3>2
    <2> QED BY <1>1, <2>4, <2>7 DEF OrderInv
  <1> QED BY <1>0, <1>5, <1>6, PatchEffect

\* patchDegraded in a reconciliation that loads or has loaded.
LEMMA DegradeStep ==
  ASSUME Inv, job.pc = "load", NEW reason \in Reasons,
         NEW about \in Seq(Refs \cup Contents), NEW retriable \in BOOLEAN,
         Degrade(reason, about, retriable),
         UNCHANGED <<content, viewVars, queue, served, lag, edits, restarts>>
  PROVE  OrderInv'
  <1>1. CASE CallFails(job.rs) /\ Failed
    BY <1>1, FailedStep DEF CallFails, viewVars
  <1>2. CASE /\ PatchTo(job.rs, job.obj, Degraded(job.obj.gen, reason, about))
             /\ IF retriable THEN Failed ELSE Done
    <2>1. Degraded(job.obj.gen, reason, about) \in Statuses
      BY StatusTypes, GenTypes DEF Inv
    <2>2. /\ Degraded(job.obj.gen, reason, about).gen = job.obj.gen
          /\ Degraded(job.obj.gen, reason, about).cond = "Degraded"
      BY DEF Degraded, Status
    <2>3. job' = Idle /\ retry \subseteq retry'
      BY <1>2 DEF Failed, Done
    <2> QED BY <1>2, <2>1, <2>2, <2>3, EndStep DEF viewVars
  <1> QED BY <1>1, <1>2 DEF Degrade

\* A user's new version of a RuleSet: a status is kept or gone.
LEMMA EditStep ==
  ASSUME Inv, NEW r \in RuleSets, NEW version \in Versions, Store(r, version),
         version.gen >= object[r].gen, version.status.gen <= version.gen,
         \/ version.status = object[r].status /\ version.exists = object[r].exists
         \/ version.status = NewStatus,
         UNCHANGED <<view, queue, retry, job, served, lag, restarts>>
  PROVE  OrderInv'
  <1>0. TypeOK /\ HistoryOrdered /\ JobOrdered /\ ReadyOwed
    BY DEF Inv, OrderInv
  <1>1. HistoryOrdered'
    BY <1>0, HistoryStep
  <1>2. version.gen \in Nat /\ version.status.gen <= object[r].status.gen
    BY <1>0, GenTypes DEF NewStatus, Status, Versions
  <1>3. JobOrdered'
    <2> SUFFICES ASSUME job.pc # "idle" PROVE JobOrdered'
      BY DEF JobOrdered
    <2>1. CASE job.rs # r
      <3>1. job.rs \in RuleSets
        BY <1>0 DEF TypeOK, Jobs
      <3> QED BY <1>0, <2>1, <3>1, StoreEffect DEF JobOrdered
    <2>2. CASE job.rs = r
      <3>1. object'[r] = version
        BY <1>0, StoreEffect
      <3>2. version.status.gen \in Nat
        BY DEF Versions, Statuses
      <3> QED BY <1>0, <1>2, <2>2, <3>1, <3>2, GenTypes DEF JobOrdered
    <2> QED BY <2>1, <2>2
  <1>4. ReadyOwed'
    <2> SUFFICES ASSUME NEW s \in RuleSets, object'[s].exists,
                        object'[s].status.cond = "Ready"
                 PROVE  /\ served'[s] = NoEntry => Owed(s)'
                        /\ served'[s] # NoEntry /\ lag' = 0 =>
                             served'[s].gen >= object'[s].status.gen
      BY DEF ReadyOwed
    <2>1. CASE s # r
      BY <1>0, <2>1, StoreEffect DEF ReadyOwed, Owed, Pending
    <2>2. CASE s = r
      <3>1. object'[r] = version /\ \A i \in DOMAIN log'[r] :
               (i \in DOMAIN log[r] /\ log'[r][i] = log[r][i]) \/ log'[r][i] = version
        BY <1>0, StoreEffect
      <3>2. version.status = object[r].status /\ object[r].exists /\ version.exists
        BY <2>2, <3>1 DEF NewStatus, Status
      <3> QED BY <1>0, <2>2, <3>1, <3>2 DEF ReadyOwed, Owed, Pending
    <2> QED BY <2>1, <2>2
  <1> QED BY <1>1, <1>3, <1>4 DEF OrderInv

\* Users keep the invariant.
LEMMA UsersStep == Inv /\ Users => OrderInv'
  <1> SUFFICES ASSUME Inv, Users PROVE OrderInv'
    OBVIOUS
  <1>0. TypeOK /\ OrderInv
    BY DEF Inv
  <1>1. ASSUME NEW r \in RuleSets, DeleteRuleSet(r) PROVE OrderInv'
    <2> DEFINE version == [Missing EXCEPT !.gen = object[r].gen]
    <2>1. version \in Versions
      BY <1>0, MissingType, GenTypes DEF Versions
    <2>2. version.gen >= object[r].gen /\ version.status = NewStatus
          /\ version.status.gen <= version.gen
      BY <1>0, GenTypes DEF Missing, NewStatus, Status
    <2> QED BY <1>1, <2>1, <2>2, EditStep DEF DeleteRuleSet, Edit
  <1>2. ASSUME NEW r \in RuleSets, ChangeAnnotation(r) PROVE OrderInv'
    <2> DEFINE version == [object[r] EXCEPT !.skip = ~@]
    <2>1. object[r] \in Versions
      BY <1>0 DEF TypeOK
    <2>2. version \in Versions /\ version.gen = object[r].gen
          /\ version.status = object[r].status /\ version.exists = object[r].exists
      BY <2>1 DEF Versions
    <2>3. version.gen >= object[r].gen /\ version.status.gen <= version.gen
      BY <1>0, <2>2, GenTypes DEF OrderInv, HistoryOrdered
    <2> QED BY <1>2, <2>2, <2>3, EditStep DEF ChangeAnnotation, Edit
  <1>3. ASSUME NEW r \in RuleSets, NEW spec \in Specs, NEW skip \in BOOLEAN,
               CreateRuleSet(r, spec, skip)
        PROVE  OrderInv'
    <2> DEFINE version == [Created(spec, skip) EXCEPT !.gen = object[r].gen + 1]
    <2>1. version \in Versions
      <3>1. object[r].gen + 1 \in Nat
        BY <1>0, GenTypes
      <3> QED BY <3>1, CreatedType, EditedType
    <2>2. version.gen >= object[r].gen /\ version.status = NewStatus
          /\ version.status.gen <= version.gen
      BY <1>0, GenTypes DEF Created, NewStatus, Status
    <2> QED BY <1>3, <2>1, <2>2, EditStep DEF CreateRuleSet, Edit
  <1>4. ASSUME NEW r \in RuleSets, NEW spec \in Specs, ChangeSpec(r, spec)
        PROVE  OrderInv'
    <2> DEFINE version == [object[r] EXCEPT !.refs = spec, !.gen = @ + 1]
    <2>1. object[r] \in Versions /\ object[r].gen + 1 \in Nat
      BY <1>0, GenTypes DEF TypeOK
    <2>2. version \in Versions
      <3>1. [object[r] EXCEPT !.refs = spec, !.gen = object[r].gen + 1] \in Versions
        BY <2>1, EditedType
      <3> QED BY <3>1
    <2>3. version.gen = object[r].gen + 1
          /\ version.status = object[r].status /\ version.exists = object[r].exists
      BY <2>1 DEF Versions
    <2>4. version.gen >= object[r].gen /\ version.status.gen <= version.gen
      BY <1>0, <2>3, GenTypes DEF OrderInv, HistoryOrdered
    <2> QED BY <1>4, <2>2, <2>3, <2>4, EditStep DEF ChangeSpec, Edit
  <1>5. ASSUME NEW ref \in Refs, NEW c \in Contents \cup {Absent}, ChangeContent(ref, c)
        PROVE  OrderInv'
    BY <1>0, <1>5 DEF ChangeContent, Edit, OrderInv, HistoryOrdered, JobOrdered,
                      ReadyOwed, Owed, Pending
  <1> QED BY <1>1, <1>2, <1>3, <1>4, <1>5 DEF Users

\* Every step of the reconciler keeps it.
LEMMA WorkStep == Inv /\ Work => OrderInv'
  <1> SUFFICES ASSUME Inv, Work PROVE OrderInv'
    OBVIOUS
  <1>0. TypeOK /\ HistoryOrdered /\ JobOrdered /\ ReadyOwed /\ TypeOK'
    BY WorkType DEF Inv, OrderInv
  <1>1. ASSUME NEW r \in RuleSets, Start(r) PROVE OrderInv'
    <2>1. HistoryOrdered'
      BY <1>0, <1>1 DEF Start, clusterVars, viewVars, HistoryOrdered
    <2>2. UNCHANGED <<object, log, view, retry, served, lag, restarts>>
          /\ queue' = queue \ {r} /\ job.pc = "idle"
      BY <1>1 DEF Start, clusterVars, viewVars, bounds
    <2>3. \A s \in RuleSets : job.rs # s
      BY <1>0, <2>2, RuleSetControllerAssumption DEF TypeOK
    <2>4. CASE ~view[r].exists
      <3>1. job' = Idle
        BY <1>1, <2>4 DEF Start
      <3>2. JobOrdered'
        BY <3>1 DEF Idle, JobOrdered
      <3>3. \A s \in RuleSets : job'.rs # s
        BY <3>1, RuleSetControllerAssumption DEF Idle
      <3>4. ReadyOwed'
        BY <1>0, <2>2, <2>3, <2>4, <3>3 DEF ReadyOwed, Owed, Pending
      <3> QED BY <2>1, <3>2, <3>4 DEF OrderInv
    <2>5. CASE view[r].exists
      <3>1. /\ job'.rs = r /\ job'.obj = view[r]
            /\ job'.pc \in {"init", "load"}
            /\ view[r].status.cond = "Ready" => job'.pc = "load"
        BY <1>1, <2>5 DEF Start
      <3>2. lag = 0 => view[r] = object[r]
        BY <1>0, <1>1 DEF Start, HistoryOrdered, TypeOK
      <3>3. JobOrdered'
        BY <1>0, <2>2, <3>1, <3>2 DEF JobOrdered, HistoryOrdered
      <3>4. ReadyOwed'
        BY <1>0, <2>2, <2>3, <3>1 DEF ReadyOwed, Owed, Pending
      <3> QED BY <2>1, <3>3, <3>4 DEF OrderInv
    <2> QED BY <2>4, <2>5
  <1>2. ASSUME NEW r \in RuleSets, StartFails(r) PROVE OrderInv'
    BY <1>0, <1>2 DEF StartFails, clusterVars, viewVars, OrderInv, HistoryOrdered,
                      JobOrdered, ReadyOwed, Owed, Pending
  <1>3. CASE InitializeStatus
    <2>0. job.pc = "init" /\ job.rs \in RuleSets
      BY <1>0, <1>3 DEF InitializeStatus, TypeOK, Jobs
    <2>1. UNCHANGED <<view, queue, served, lag, restarts>>
      BY <1>3 DEF InitializeStatus, viewVars
    <2>2. CASE CallFails(job.rs) /\ Failed
      BY <2>0, <2>1, <2>2, FailedStep DEF CallFails
    <2>3. CASE /\ PatchTo(job.rs, job.obj, Progressing(job.obj.gen))
               /\ job' = [job EXCEPT !.pc = "load", !.obj = object'[job.rs]]
               /\ UNCHANGED <<retry, faults>>
      <3> DEFINE r == job.rs
                 status == Progressing(job.obj.gen)
      <3>1. status \in Statuses /\ status.gen = job.obj.gen /\ status.cond = "Progressing"
        BY <1>0, GenTypes, StatusTypes DEF Progressing, Status
      <3>2. job'.rs = r /\ job'.pc = "load" /\ job'.obj = object'[r]
        BY <1>0, <2>3 DEF TypeOK, Jobs
      <3>3. \/ UNCHANGED <<object, log>>
            \/ /\ Store(r, [object[r] EXCEPT !.status = status])
               /\ [object[r] EXCEPT !.status = status] \in Versions
        BY <1>0, <2>0, <2>3, <3>1, PatchEffect
      <3>4. HistoryOrdered'
        <4>1. CASE UNCHANGED <<object, log>>
          BY <1>0, <2>1, <4>1 DEF HistoryOrdered
        <4>2. CASE /\ Store(r, [object[r] EXCEPT !.status = status])
                   /\ [object[r] EXCEPT !.status = status] \in Versions
          <5> DEFINE version == [object[r] EXCEPT !.status = status]
          <5>1. version.gen = object[r].gen /\ version.status = status
            BY <1>0, <2>0 DEF TypeOK, Versions
          <5>2. version.gen >= object[r].gen /\ version.status.gen <= version.gen
            BY <1>0, <2>0, <3>1, <5>1, GenTypes DEF JobOrdered
          <5> QED BY <1>0, <2>0, <2>1, <4>2, <5>2, HistoryStep
        <4> QED BY <3>3, <4>1, <4>2
      <3>5. JobOrdered'
        <4>1. object'[r].status.gen <= object'[r].gen /\ object'[r].gen \in Nat
          BY <1>0, <2>0, <3>4, GenTypes DEF HistoryOrdered, TypeOK, Versions
        <4>2. served'[r] # NoEntry => served'[r].gen <= object'[r].gen
          BY <2>0, <3>4 DEF HistoryOrdered
        <4> QED BY <3>2, <4>1, <4>2 DEF JobOrdered
      <3>6. ReadyOwed'
        <4> SUFFICES ASSUME NEW s \in RuleSets, object'[s].exists,
                            object'[s].status.cond = "Ready"
                     PROVE  /\ served'[s] = NoEntry => Owed(s)'
                            /\ served'[s] # NoEntry /\ lag' = 0 =>
                                 served'[s].gen >= object'[s].status.gen
          BY DEF ReadyOwed
        <4>1. s # r => object'[s] = object[s] /\ log'[s] = log[s]
          BY <1>0, <2>0, <3>3, StoreEffect
        <4>2. s = r => object'[s] = object[s]
          <5>1. CASE Store(r, [object[r] EXCEPT !.status = status])
            <6>1. object'[r].status = status
              BY <1>0, <2>0, <5>1 DEF Store, TypeOK, Versions
            <6> QED BY <3>1, <6>1
          <5> QED BY <3>3, <5>1
        <4>3. CASE s = r
          BY <1>0, <2>0, <2>1, <4>2, <4>3 DEF ReadyOwed, Owed
        <4>4. CASE s # r
          BY <1>0, <2>1, <2>3, <3>2, <4>1, <4>4 DEF ReadyOwed, Owed, Pending
        <4> QED BY <4>3, <4>4
      <3> QED BY <3>4, <3>5, <3>6 DEF OrderInv
    <2> QED BY <1>3, <2>2, <2>3 DEF InitializeStatus
  <1>4. CASE Load
    <2>1. job'.pc = job.pc /\ job'.rs = job.rs /\ job'.obj = job.obj
      BY <1>0, <1>4 DEF Load, TypeOK, Jobs
    <2> QED BY <1>0, <1>4, <2>1
        DEF Load, clusterVars, viewVars, bounds, OrderInv, HistoryOrdered,
            JobOrdered, ReadyOwed, Owed, Pending
  <1>5. CASE LoadMissing
    <2>1. NotFound(NextRef) \in Reasons
      BY DEF NotFound, Reasons
    <2> QED BY <1>0, <1>5, <2>1, NextRefType, DegradeStep DEF LoadMissing, Loading
  <1>6. CASE LoadFails
    <2> DEFINE status == Degraded(job.obj.gen, AccessError(NextRef), <<NextRef>>)
    <2>1. AccessError(NextRef) \in Reasons
      BY DEF AccessError, Reasons
    <2>2. status \in Statuses /\ status.gen = job.obj.gen /\ status.cond = "Degraded"
      BY <1>0, <1>6, <2>1, NextRefType, StatusTypes, GenTypes DEF LoadFails, Degraded, Status
    <2>3. job.pc = "load" /\ Failed /\ job' = Idle /\ retry \subseteq retry'
          /\ UNCHANGED <<view, queue, served, lag, restarts>>
      BY <1>6 DEF LoadFails, Loading, Failed, viewVars
    <2>4. CASE UNCHANGED <<object, log>>
      BY <2>3, <2>4, FailedStep
    <2>5. CASE PatchTo(job.rs, job.obj, status)
      BY <2>2, <2>3, <2>5, EndStep
    <2> QED BY <1>6, <2>4, <2>5 DEF LoadFails
  <1>7. job.loaded \in Seq(Refs \cup Contents)
    BY <1>0 DEF TypeOK, Jobs
  <1>8. CASE RejectInvalid
    BY <1>7, <1>8, DegradeStep DEF RejectInvalid, Loaded, Reasons
  <1>9. CASE RejectUnsupported
    BY <1>7, <1>9, DegradeStep DEF RejectUnsupported, Loaded, Reasons
  <1>10. CASE PutRules
    <2> DEFINE r == job.rs
               entry == [gen |-> job.obj.gen, skip |-> job.obj.skip, rules |-> job.loaded]
    <2>1. job.pc = "load" /\ r \in RuleSets
      BY <1>0, <1>10 DEF PutRules, Loaded, TypeOK, Jobs
    <2>2. entry # NoEntry /\ entry.gen = job.obj.gen
      <3>1. entry \in Entries
        BY <1>0 DEF TypeOK, Jobs, Versions, Entries
      <3> QED BY <3>1, RuleSetControllerAssumption
    <2>3. served'[r] = entry /\ \A s \in RuleSets : s # r => served'[s] = served[s]
      BY <1>0, <1>10, <2>1 DEF PutRules, TypeOK
    <2>4. job'.rs = r /\ job'.pc = "ready" /\ job'.obj = job.obj
      BY <1>0, <1>10 DEF PutRules, TypeOK, Jobs
    <2>5. UNCHANGED <<object, log, view, queue, retry, lag, restarts>>
      BY <1>10 DEF PutRules, clusterVars, viewVars, bounds
    <2> HIDE DEF entry
    <2>6. HistoryOrdered'
      BY <1>0, <2>1, <2>2, <2>3, <2>5 DEF HistoryOrdered, JobOrdered
    <2>7. JobOrdered'
      BY <1>0, <2>1, <2>2, <2>3, <2>4, <2>5, GenTypes DEF JobOrdered
    <2>8. ReadyOwed'
      BY <1>0, <2>1, <2>2, <2>3, <2>4, <2>5, GenTypes
      DEF ReadyOwed, Owed, Pending, JobOrdered
    <2> QED BY <2>6, <2>7, <2>8 DEF OrderInv
  <1>11. CASE PatchReady
    <2> DEFINE status == Ready(job.obj.gen, job.loaded)
    <2>1. job.pc = "ready" /\ UNCHANGED <<view, queue, served, lag, restarts>>
      BY <1>11 DEF PatchReady, viewVars
    <2>2. CASE CallFails(job.rs) /\ Failed
      BY <2>1, <2>2, FailedStep DEF CallFails
    <2>3. CASE PatchTo(job.rs, job.obj, status) /\ Done
      <3>1. status \in Statuses /\ status.gen = job.obj.gen
        BY <1>0, StatusTypes, GenTypes DEF TypeOK, Jobs, Ready, Status
      <3>2. job' = Idle /\ retry \subseteq retry'
        BY <2>3 DEF Done
      <3> QED BY <2>1, <2>3, <3>1, <3>2, EndStep
    <2> QED BY <1>11, <2>2, <2>3 DEF PatchReady
  <1> QED
    BY <1>1, <1>2, <1>3, <1>4, <1>5, <1>6, <1>8, <1>9, <1>10, <1>11 DEF Work

\* Every step keeps it.
LEMMA OrderNext == Inv /\ [Next]_vars => OrderInv'
  <1> SUFFICES ASSUME Inv, [Next]_vars PROVE OrderInv'
    OBVIOUS
  <1>0. TypeOK /\ HistoryOrdered /\ JobOrdered /\ ReadyOwed
    BY DEF Inv, OrderInv
  <1>1. ASSUME NEW r \in RuleSets, DeliverRuleSet(r) PROVE OrderInv'
    <2>1. log[r] \in Seq(Versions) /\ log[r] # <<>>
      BY <1>0, <1>1 DEF DeliverRuleSet, TypeOK
    <2>2. /\ view'[r] = log[r][1] /\ log'[r] = Tail(log[r])
          /\ \A s \in RuleSets : s # r => view'[s] = view[s] /\ log'[s] = log[s]
          /\ UNCHANGED <<object, retry, job, served, lag, restarts>>
          /\ queue \subseteq queue'
      BY <1>0, <1>1, <2>1 DEF DeliverRuleSet, TypeOK, bounds
    <2>3. 1 \in DOMAIN log[r]
      BY <2>1
    <2>4. \A i \in DOMAIN Tail(log[r]) :
            i + 1 \in DOMAIN log[r] /\ Tail(log[r])[i] = log[r][i + 1]
      BY <2>1
    <2>5. Tail(log[r]) = <<>> => log[r][1] = log[r][Len(log[r])]
      <3>1. Len(Tail(log[r])) = Len(log[r]) - 1 /\ Len(log[r]) \in Nat
        BY <2>1
      <3>2. Tail(log[r]) = <<>> => Len(Tail(log[r])) = 0
        BY EmptySeq
      <3>3. Tail(log[r]) = <<>> => Len(log[r]) = 1
        BY <3>1, <3>2
      <3> QED BY <3>3
    <2>6. Tail(log[r]) # <<>> => Tail(log[r])[Len(Tail(log[r]))] = log[r][Len(log[r])]
      BY <2>1
    <2>7. HistoryOrdered'
      <3> SUFFICES ASSUME NEW s \in RuleSets
                   PROVE  /\ object'[s].status.gen <= object'[s].gen
                          /\ view'[s].gen <= object'[s].gen
                          /\ log'[s] = <<>> => view'[s] = object'[s]
                          /\ log'[s] # <<>> => log'[s][Len(log'[s])] = object'[s]
                          /\ \A i \in DOMAIN log'[s] : log'[s][i].gen <= object'[s].gen
                          /\ served'[s] # NoEntry => served'[s].gen <= object'[s].gen
        BY DEF HistoryOrdered
      <3>1. CASE s # r
        BY <1>0, <2>2, <3>1 DEF HistoryOrdered
      <3>2. CASE s = r
        <4>1. log[r][Len(log[r])] = object[r]
              /\ \A i \in DOMAIN log[r] : log[r][i].gen <= object[r].gen
          BY <1>0, <2>1 DEF HistoryOrdered
        <4>2. log'[r] = <<>> => view'[r] = object'[r]
          BY <2>2, <2>5, <4>1
        <4>3. log'[r] # <<>> => log'[r][Len(log'[r])] = object'[r]
          BY <2>2, <2>6, <4>1
        <4>4. \A i \in DOMAIN log'[r] : log'[r][i].gen <= object'[r].gen
          BY <2>2, <2>4, <4>1
        <4>5. view'[r].gen <= object'[r].gen
          BY <2>2, <2>3, <4>1
        <4>6. /\ object'[r].status.gen <= object'[r].gen
              /\ served'[r] # NoEntry => served'[r].gen <= object'[r].gen
          BY <1>0, <2>2 DEF HistoryOrdered
        <4> QED BY <3>2, <4>2, <4>3, <4>4, <4>5, <4>6
      <3> QED BY <3>1, <3>2
    <2>8. JobOrdered'
      BY <1>0, <2>2 DEF JobOrdered
    <2>9. ReadyOwed'
      <3> SUFFICES ASSUME NEW s \in RuleSets, object'[s].exists,
                          object'[s].status.cond = "Ready"
                   PROVE  /\ served'[s] = NoEntry => Owed(s)'
                          /\ served'[s] # NoEntry /\ lag' = 0 =>
                               served'[s].gen >= object'[s].status.gen
        BY DEF ReadyOwed
      <3>1. Pending(s) => Pending(s)'
        BY <2>2 DEF Pending
      <3>2. CASE s # r
        BY <1>0, <2>2, <3>1, <3>2 DEF ReadyOwed, Owed
      <3>3. CASE s = r
        <4>1. served[r] # NoEntry /\ lag = 0 => served[r].gen >= object[r].status.gen
          BY <1>0, <2>2, <3>3 DEF ReadyOwed
        <4>2. ASSUME served[r] = NoEntry PROVE Owed(r)'
          <5>1. Owed(r)
            BY <1>0, <2>2, <3>3, <4>2 DEF ReadyOwed
          <5>2. view'[r].exists /\ view'[r].status.cond = "Ready"
            BY <2>2, <2>3, <5>1 DEF Owed
          <5>3. \A i \in DOMAIN log'[r] :
                  log'[r][i].exists /\ log'[r][i].status.cond = "Ready"
            BY <2>2, <2>4, <5>1 DEF Owed
          <5> QED BY <2>2, <3>1, <3>3, <5>1, <5>2, <5>3 DEF Owed
        <4> QED BY <2>2, <3>3, <4>1, <4>2
      <3> QED BY <3>2, <3>3
    <2> QED BY <2>7, <2>8, <2>9 DEF OrderInv
  <1>2. ASSUME NEW r \in RuleSets, RetryDue(r) PROVE OrderInv'
    BY <1>0, <1>2 DEF RetryDue, clusterVars, viewVars, bounds, OrderInv,
                      HistoryOrdered, JobOrdered, ReadyOwed, Owed, Pending
  <1>3. ASSUME NEW ref \in Refs, DeliverContent(ref) PROVE OrderInv'
    BY <1>0, <1>3 DEF DeliverContent, clusterVars, bounds, OrderInv,
                      HistoryOrdered, JobOrdered, ReadyOwed, Owed, Pending
  <1>4. CASE Restart
    <2>1. /\ \A r \in RuleSets : served'[r] = NoEntry /\ log'[r] = <<>> /\ job'.rs # r
          /\ job'.pc = "idle" /\ view' = object /\ object' = object
          /\ restarts' > 0
      BY <1>0, <1>4, RuleSetControllerAssumption DEF Restart, Idle, TypeOK
    <2>2. \A r \in RuleSets : object[r].exists => Pending(r)'
      BY <1>4 DEF Restart, Pending
    <2>3. HistoryOrdered'
      BY <1>0, <2>1, GenTypes DEF HistoryOrdered
    <2>4. JobOrdered'
      BY <2>1 DEF JobOrdered
    <2>5. ReadyOwed'
      BY <2>1, <2>2 DEF ReadyOwed, Owed
    <2> QED BY <2>3, <2>4, <2>5 DEF OrderInv
  <1>5. CASE UNCHANGED vars
    BY <1>0, <1>5 DEF vars, OrderInv, HistoryOrdered, JobOrdered, ReadyOwed, Owed, Pending
  <1> QED BY <1>1, <1>2, <1>3, <1>4, <1>5, UsersStep, WorkStep DEF Next

\* Only PutRules and the death of the process change the cache.
LEMMA ServedChanges == [Next]_vars => PutRules \/ Restart \/ UNCHANGED served
  <1> SUFFICES ASSUME [Next]_vars PROVE PutRules \/ Restart \/ UNCHANGED served
    OBVIOUS
  <1>1. Users => UNCHANGED served
    BY DEF Users, DeleteRuleSet, ChangeAnnotation, CreateRuleSet, ChangeSpec,
           ChangeContent, Edit
  <1>2. Work => PutRules \/ UNCHANGED served
    BY DEF Work, Start, StartFails, InitializeStatus, Load, LoadMissing, LoadFails,
           RejectInvalid, RejectUnsupported, PatchReady
  <1>3. ASSUME NEW r \in RuleSets, DeliverRuleSet(r) \/ RetryDue(r)
        PROVE  UNCHANGED served
    BY <1>3 DEF DeliverRuleSet, RetryDue
  <1>4. ASSUME NEW ref \in Refs, DeliverContent(ref) PROVE UNCHANGED served
    BY <1>4 DEF DeliverContent
  <1>5. UNCHANGED vars => UNCHANGED served
    BY DEF vars
  <1> QED BY <1>1, <1>2, <1>3, <1>4, <1>5 DEF Next

\* The invariant holds of a cluster that was never reconciled.
LEMMA InvInit == Init => Inv
  <1> SUFFICES ASSUME Init PROVE Inv
    OBVIOUS
  <1>1. TypeOK
    BY TypeInit
  <1>3. \A r \in RuleSets : object[r].status = NewStatus
    <2>1. Missing.status = NewStatus /\ \A s \in Specs : Created(s, FALSE).status = NewStatus
      BY DEF Missing, Created
    <2>2. \A r \in RuleSets :
            object[r] = Missing \/ \E s \in Specs : object[r] = Created(s, FALSE)
      <3>1. object \in [RuleSets -> {Missing} \cup {Created(s, FALSE) : s \in Specs}]
        BY DEF Init
      <3> QED BY <3>1
    <2> QED BY <2>1, <2>2
  <1>4. HistoryOrdered
    <2>1. \A r \in RuleSets : object[r].status.gen = 0 /\ object[r].gen \in Nat
      <3>1. NewStatus.gen = 0
        BY DEF NewStatus, Status
      <3>2. \A r \in RuleSets : object[r].gen \in Nat
        BY <1>1, GenTypes
      <3> QED BY <1>3, <3>1, <3>2
    <2>2. \A r \in RuleSets : log[r] = <<>> /\ served[r] = NoEntry /\ view[r] = object[r]
      BY DEF Init
    <2>3. \A r \in RuleSets : \A i \in DOMAIN log[r] : FALSE
      <3>1. Len(<<>>) = 0
        BY EmptySeq
      <3>2. \A r \in RuleSets : DOMAIN log[r] = 1..Len(log[r]) /\ Len(log[r]) = 0
        <4>1. \A r \in RuleSets : log[r] \in Seq(Versions)
          BY <1>1 DEF TypeOK
        <4> QED BY <2>2, <3>1, <4>1, LenProperties
      <3> QED BY <3>2
    <2> SUFFICES ASSUME NEW r \in RuleSets
                 PROVE  /\ object[r].status.gen <= object[r].gen
                        /\ view[r].gen <= object[r].gen
      BY <2>2, <2>3 DEF HistoryOrdered
    <2> QED BY <2>1, <2>2
  <1>5. JobOrdered
    BY DEF Init, Idle, JobOrdered
  <1>6. ReadyOwed
    BY <1>3 DEF ReadyOwed, NewStatus, Status
  <1> QED BY <1>1, <1>4, <1>5, <1>6 DEF Inv, OrderInv

\* The inductive step, put together.
LEMMA InvNext == Inv /\ [Next]_vars => Inv'
  BY TypeNext, OrderNext DEF Inv

\* A RuleSet that says Ready has its rules in the cache, unless the process has
\* just started and is about to reconcile it; with RuleSets read up to date they
\* are of the observed generation or a later one.
THEOREM ReadyMeansCached == Spec => []ReadyIsCached
  <1>1. Inv => ReadyIsCached
    BY DEF Inv, OrderInv, ReadyOwed, Owed, ReadyIsCached
  <1> QED BY <1>1, InvInit, InvNext, PTL DEF Spec

\* The one step that replaces rules, compared with what it replaces.
LEMMA KeptNext ==
  ASSUME Inv, [Next]_vars, NEW r \in RuleSets, served[r] # NoEntry, restarts' = restarts
  PROVE  served'[r] # NoEntry /\ (lag = 0 => served'[r].gen >= served[r].gen)
  <1>0. TypeOK /\ JobOrdered /\ served[r].gen \in Nat
    BY GenTypes DEF Inv, OrderInv
  <1>1. CASE PutRules
    <2> DEFINE entry == [gen |-> job.obj.gen, skip |-> job.obj.skip, rules |-> job.loaded]
    <2>1. served'[r] = served[r] \/ (served'[r] = entry /\ r = job.rs)
      BY <1>0, <1>1 DEF PutRules, TypeOK
    <2>2. entry \in Entries /\ entry # NoEntry
      <3>1. entry \in Entries
        BY <1>0 DEF TypeOK, Jobs, Versions, Entries
      <3> QED BY <3>1, RuleSetControllerAssumption
    <2>3. r = job.rs /\ lag = 0 => served[r].gen <= entry.gen
      BY <1>0, <1>1 DEF PutRules, Loaded, JobOrdered
    <2>4. entry.gen \in Nat
      BY <1>0, GenTypes
    <2> HIDE DEF entry
    <2> QED BY <1>0, <2>1, <2>2, <2>3, <2>4
  <1>2. CASE Restart
    BY <1>0, <1>2 DEF Restart, TypeOK
  <1>3. CASE UNCHANGED served
    BY <1>0, <1>3
  <1> QED BY <1>1, <1>2, <1>3, ServedChanges

\* The last known good rules stay until better ones replace them: no step but
\* the death of the process takes rules away, and with RuleSets read up to date
\* none replaces them by older ones.
THEOREM LastKnownGood == Spec => LastKnownGoodKept
  <1>1. Inv /\ [Next]_vars =>
          [\A r \in RuleSets : served[r] # NoEntry /\ restarts' = restarts =>
             /\ served'[r] # NoEntry
             /\ lag = 0 => served'[r].gen >= served[r].gen]_vars
    BY KeptNext
  <1> QED BY <1>1, InvInit, InvNext, PTL DEF Spec, LastKnownGoodKept

-----------------------------------------------------------------------------
(* Torn reads.                                                             *)

\* Two versions of one generation name the same objects.
SameSpec(v, w) == v.exists /\ w.exists /\ v.gen = w.gen => v.refs = w.refs

VersionsAgree ==
  \A r \in RuleSets :
    /\ SameSpec(view[r], object[r])
    /\ \A i \in DOMAIN log[r] : /\ SameSpec(view[r], log[r][i])
                                /\ SameSpec(log[r][i], object[r])
    /\ \A i, j \in DOMAIN log[r] : SameSpec(log[r][i], log[r][j])

\* The RuleSet is queued, or a version is under way that will queue it.
Coming(r) == r \in queue \/ \E i \in DOMAIN log[r] : Triggers(view[r], log[r][i])

\* What was read so far is what the informers show.
ReadsShown(r) ==
  /\ job.obj.exists /\ ~Triggers(view[r], job.obj)
  /\ job.obj.refs = view[r].refs
  /\ Len(job.loaded) <= Len(job.obj.refs)
  /\ \A i \in 1..Len(job.loaded) : job.loaded[i] = contentView[job.obj.refs[i]]

Acceptable(r) ==
  /\ view[r].exists
  /\ \A i \in DOMAIN Shown(r) : Shown(r)[i] # Absent
  /\ Accepted(view[r], Shown(r))

Settled(r) ==
  Acceptable(r) => served[r] = [gen |-> view[r].gen, skip |-> view[r].skip, rules |-> Shown(r)]

\* What a reconciliation has read is what the informers show, or another one
\* will follow it.
JobTorn == job.pc \in {"init", "load"} => Coming(job.rs) \/ ReadsShown(job.rs)

\* What was left behind is what the informers show, or another will follow.
RestTorn ==
  \A r \in RuleSets :
    r \notin retry /\ (job.rs # r \/ job.pc = "ready") => Coming(r) \/ Settled(r)

TornInv == VersionsAgree /\ JobTorn /\ RestTorn

\* The references of a version are a sequence of references.
LEMMA RefsType ==
  ASSUME TypeOK
  PROVE  /\ \A r \in RuleSets : view[r].refs \in Seq(Refs)
         /\ job.obj.refs \in Seq(Refs)
         /\ job.loaded \in Seq(Contents)
  <1>1. \A refs \in Specs \cup {<<>>} : refs \in Seq(Refs)
    <2>1. <<>> \in Seq(Refs)
      OBVIOUS
    <2> QED BY <2>1, RuleSetControllerAssumption
  <1>2. \A r \in RuleSets : view[r].refs \in Specs \cup {<<>>}
    BY DEF TypeOK, Versions
  <1>3. job.obj.refs \in Specs \cup {<<>>} /\ job.loaded \in Seq(Contents)
    BY DEF TypeOK, Jobs, Versions
  <1> QED BY <1>1, <1>2, <1>3

\* Nothing that matters here happens: the log may grow, an item may be added to
\* the delayed ones.
LEMMA TornKept ==
  ASSUME JobTorn, RestTorn, UNCHANGED <<view, contentView, queue, served, job>>,
         retry \subseteq retry',
         \A r \in RuleSets : \A i \in DOMAIN log[r] :
            i \in DOMAIN log'[r] /\ log'[r][i] = log[r][i],
         TypeOK
  PROVE  JobTorn' /\ RestTorn'
  <1>1. \A r \in RuleSets : Coming(r) => Coming(r)'
    BY DEF Coming
  <1>2. \A r \in RuleSets : Settled(r) => Settled(r)'
    BY DEF Settled, Acceptable, Shown
  <1>3. job.pc \in {"init", "load"} => job.rs \in RuleSets
    BY DEF TypeOK, Jobs
  <1>4. JobTorn'
    BY <1>1, <1>3 DEF JobTorn, ReadsShown
  <1>5. RestTorn'
    BY <1>1, <1>2 DEF RestTorn
  <1> QED BY <1>4, <1>5

\* The end of a reconciliation: it comes back, or it leaves things settled.
LEMMA TornEnd ==
  ASSUME TypeOK, JobTorn, RestTorn, UNCHANGED <<view, contentView, queue, served>>,
         retry \subseteq retry', job' = Idle, job.pc # "idle",
         \A r \in RuleSets : \A i \in DOMAIN log[r] :
            i \in DOMAIN log'[r] /\ log'[r][i] = log[r][i],
         \/ job.rs \in retry' \/ job.pc = "ready"
         \/ Coming(job.rs) \/ Settled(job.rs)
  PROVE  JobTorn' /\ RestTorn'
  <1>1. \A r \in RuleSets : Coming(r) => Coming(r)'
    BY DEF Coming
  <1>2. \A r \in RuleSets : Settled(r) => Settled(r)'
    BY DEF Settled, Acceptable, Shown
  <1>3. JobTorn'
    BY DEF JobTorn, Idle
  <1>4. \A r \in RuleSets : job'.rs # r
    BY RuleSetControllerAssumption DEF Idle
  <1>5. ASSUME NEW r \in RuleSets, r \notin retry'
        PROVE  Coming(r) \/ Settled(r)
    BY <1>5 DEF RestTorn
  <1>6. RestTorn'
    BY <1>1, <1>2, <1>4, <1>5 DEF RestTorn
  <1> QED BY <1>3, <1>6

\* A stored version keeps the log that is there.
LEMMA StoreGrows ==
  ASSUME TypeOK, NEW r \in RuleSets, NEW version \in Versions, Store(r, version)
  PROVE  \A s \in RuleSets : \A i \in DOMAIN log[s] :
            i \in DOMAIN log'[s] /\ log'[s][i] = log[s][i]
  <1> SUFFICES ASSUME NEW s \in RuleSets, NEW i \in DOMAIN log[s]
               PROVE  i \in DOMAIN log'[s] /\ log'[s][i] = log[s][i]
    OBVIOUS
  <1>2. CASE s # r
    BY <1>2, StoreEffect
  <1>3. CASE s = r
    <2>1. log[r] \in Seq(Versions) /\ log'[r] = Append(log[r], version)
      BY StoreEffect DEF TypeOK
    <2> QED BY <1>3, <2>1
  <1> QED BY <1>2, <1>3

\* A version of a new generation, of one that is gone, or of the present one
\* agrees with the others.
LEMMA StoreAgrees ==
  ASSUME Inv, VersionsAgree, NEW r \in RuleSets, NEW version \in Versions,
         Store(r, version), UNCHANGED view,
         \/ ~version.exists
         \/ version.gen > object[r].gen
         \/ /\ version.gen = object[r].gen /\ version.refs = object[r].refs
            /\ object[r].exists
  PROVE  VersionsAgree'
  <1>0. TypeOK /\ HistoryOrdered
    BY DEF Inv, OrderInv
  <1>1. version.gen \in Nat /\ object[r].gen \in Nat /\ view[r].gen \in Nat
    BY <1>0 DEF TypeOK, Versions
  <1>2. \A i \in DOMAIN log[r] : log[r][i].gen \in Nat
    <2>1. log[r] \in Seq(Versions)
      BY <1>0 DEF TypeOK
    <2>2. \A i \in DOMAIN log[r] : log[r][i] \in Versions
      BY <2>1
    <2> QED BY <2>2 DEF Versions
  <1>3. SameSpec(view[r], version) /\ SameSpec(version, view[r])
        /\ SameSpec(version, version)
    BY <1>0, <1>1 DEF SameSpec, VersionsAgree, HistoryOrdered
  <1>4. \A i \in DOMAIN log[r] : SameSpec(log[r][i], version) /\ SameSpec(version, log[r][i])
    BY <1>0, <1>1, <1>2 DEF SameSpec, VersionsAgree, HistoryOrdered
  <1> SUFFICES ASSUME NEW s \in RuleSets
               PROVE  /\ SameSpec(view'[s], object'[s])
                      /\ \A i \in DOMAIN log'[s] : /\ SameSpec(view'[s], log'[s][i])
                                                   /\ SameSpec(log'[s][i], object'[s])
                      /\ \A i, j \in DOMAIN log'[s] : SameSpec(log'[s][i], log'[s][j])
    BY DEF VersionsAgree
  <1>5. CASE s # r
    BY <1>0, <1>5, StoreEffect DEF VersionsAgree
  <1>6. CASE s = r
    <2>1. object'[r] = version /\ \A i \in DOMAIN log'[r] :
            (i \in DOMAIN log[r] /\ log'[r][i] = log[r][i]) \/ log'[r][i] = version
      BY <1>0, StoreEffect
    <2>2. \A i, j \in DOMAIN log'[r] : SameSpec(log'[r][i], log'[r][j])
      BY <1>3, <1>4, <2>1 DEF VersionsAgree
    <2>3. \A i \in DOMAIN log'[r] : SameSpec(view[r], log'[r][i]) /\ SameSpec(log'[r][i], version)
      BY <1>3, <1>4, <2>1 DEF VersionsAgree
    <2> QED BY <1>3, <1>6, <2>1, <2>2, <2>3
  <1> QED BY <1>5, <1>6

\* A patch of the status changes nothing that names objects.
LEMMA PatchTorn ==
  ASSUME Inv, VersionsAgree, NEW r \in RuleSets, NEW status \in Statuses, NEW obj,
         PatchTo(r, obj, status), UNCHANGED view
  PROVE  /\ VersionsAgree'
         /\ \A s \in RuleSets : \A i \in DOMAIN log[s] :
               i \in DOMAIN log'[s] /\ log'[s][i] = log[s][i]
         /\ object'[r].exists
         /\ log'[r] # <<>> => log'[r][Len(log'[r])] = object'[r]
         /\ log'[r] = <<>> => view[r] = object'[r]
  <1>0. TypeOK /\ HistoryOrdered
    BY DEF Inv, OrderInv
  <1>1. CASE UNCHANGED <<object, log>>
    BY <1>0, <1>1, PatchEffect DEF VersionsAgree, HistoryOrdered
  <1>2. CASE /\ Store(r, [object[r] EXCEPT !.status = status])
             /\ [object[r] EXCEPT !.status = status] \in Versions
    <2> DEFINE version == [object[r] EXCEPT !.status = status]
    <2>1. /\ version.gen = object[r].gen /\ version.refs = object[r].refs
          /\ version.exists = object[r].exists
      BY <1>0 DEF TypeOK, Versions
    <2>2. object[r].exists
      BY <1>0, PatchEffect
    <2>3. version \in Versions /\ Store(r, version)
      BY <1>2
    <2> HIDE DEF version
    <2>4. VersionsAgree'
      BY <2>1, <2>2, <2>3, StoreAgrees
    <2>5. \A s \in RuleSets : \A i \in DOMAIN log[s] :
             i \in DOMAIN log'[s] /\ log'[s][i] = log[s][i]
      BY <1>0, <2>3, StoreGrows
    <2>6. object'[r] = version /\ log'[r] # <<>> /\ log'[r][Len(log'[r])] = version
      BY <1>0, <2>3, StoreEffect
    <2> QED BY <2>1, <2>2, <2>4, <2>5, <2>6
  <1> QED BY <1>0, <1>1, <1>2, PatchEffect

\* Users: what is there to come stays so.
LEMMA UsersTorn == Inv /\ TornInv /\ Users => TornInv'
  <1> SUFFICES ASSUME Inv, TornInv, Users PROVE TornInv'
    OBVIOUS
  <1>0. TypeOK /\ VersionsAgree /\ JobTorn /\ RestTorn
    BY DEF Inv, TornInv
  <1>g. \A r \in RuleSets : object[r].gen \in Nat /\ object[r] \in Versions
    BY <1>0, GenTypes DEF TypeOK
  <1>1. ASSUME NEW r \in RuleSets, NEW version \in Versions, Store(r, version), Edit,
               \/ ~version.exists
               \/ version.gen > object[r].gen
               \/ /\ version.gen = object[r].gen /\ version.refs = object[r].refs
                  /\ object[r].exists
        PROVE  TornInv'
    <2>1. UNCHANGED <<view, contentView, queue, retry, job, served>>
      BY <1>1 DEF Edit
    <2>2. VersionsAgree'
      BY <1>0, <1>1, <2>1, StoreAgrees
    <2>3. JobTorn' /\ RestTorn'
      BY <1>0, <1>1, <2>1, StoreGrows, TornKept
    <2> QED BY <2>2, <2>3 DEF TornInv
  <1>2. ASSUME NEW r \in RuleSets, DeleteRuleSet(r) PROVE TornInv'
    <2> DEFINE version == [Missing EXCEPT !.gen = object[r].gen]
    <2>1. version \in Versions /\ ~version.exists
      BY <1>g, MissingType DEF Versions, Missing
    <2>2. Store(r, version) /\ Edit
      BY <1>2 DEF DeleteRuleSet
    <2> HIDE DEF version
    <2> QED BY <1>1, <2>1, <2>2
  <1>3. ASSUME NEW r \in RuleSets, ChangeAnnotation(r) PROVE TornInv'
    <2> DEFINE version == [object[r] EXCEPT !.skip = ~@]
    <2>1. version \in Versions /\ version.gen = object[r].gen /\ version.refs = object[r].refs
      BY <1>g DEF Versions
    <2>2. Store(r, version) /\ Edit /\ object[r].exists
      BY <1>3 DEF ChangeAnnotation
    <2> HIDE DEF version
    <2> QED BY <1>1, <2>1, <2>2
  <1>4. ASSUME NEW r \in RuleSets, NEW spec \in Specs, NEW skip \in BOOLEAN,
               CreateRuleSet(r, spec, skip)
        PROVE  TornInv'
    <2> DEFINE version == [Created(spec, skip) EXCEPT !.gen = object[r].gen + 1]
    <2>1. version \in Versions /\ version.gen = object[r].gen + 1
      <3>1. object[r].gen + 1 \in Nat
        BY <1>g
      <3>2. version \in Versions
        BY <3>1, CreatedType, EditedType
      <3> QED BY <3>2 DEF Created
    <2>2. Store(r, version) /\ Edit
      BY <1>4 DEF CreateRuleSet
    <2>3. version.gen > object[r].gen
      BY <1>g, <2>1
    <2> HIDE DEF version
    <2> QED BY <1>1, <2>1, <2>2, <2>3
  <1>5. ASSUME NEW r \in RuleSets, NEW spec \in Specs, ChangeSpec(r, spec)
        PROVE  TornInv'
    <2> DEFINE version == [object[r] EXCEPT !.refs = spec, !.gen = @ + 1]
    <2>1. version \in Versions /\ version.gen = object[r].gen + 1
      <3>1. object[r].gen + 1 \in Nat
        BY <1>g
      <3>2. [object[r] EXCEPT !.refs = spec, !.gen = object[r].gen + 1] \in Versions
        BY <1>g, <3>1, EditedType
      <3> QED BY <1>g, <3>2 DEF Versions
    <2>2. Store(r, version) /\ Edit
      BY <1>5 DEF ChangeSpec
    <2>3. version.gen > object[r].gen
      BY <1>g, <2>1
    <2> HIDE DEF version
    <2> QED BY <1>1, <2>1, <2>2, <2>3
  <1>6. ASSUME NEW ref \in Refs, NEW c \in Contents \cup {Absent}, ChangeContent(ref, c)
        PROVE  TornInv'
    <2>1. UNCHANGED <<object, log, view, contentView, queue, retry, job, served>>
      BY <1>6 DEF ChangeContent, Edit
    <2>2. JobTorn' /\ RestTorn'
      BY <1>0, <2>1, TornKept
    <2> QED BY <1>0, <2>1, <2>2 DEF TornInv, VersionsAgree
  <1> QED BY <1>2, <1>3, <1>4, <1>5, <1>6 DEF Users

\* A reconciliation that has read all, and nothing is coming, has what the
\* informers show.
LEMMA AllRead ==
  ASSUME TypeOK, Loaded, ReadsShown(job.rs)
  PROVE  /\ job.rs \in RuleSets
         /\ job.loaded = Shown(job.rs)
         /\ job.obj.gen = view[job.rs].gen /\ job.obj.skip = view[job.rs].skip
         /\ view[job.rs].exists
  <1> DEFINE r == job.rs
  <1>1. r \in RuleSets
    BY DEF TypeOK, Jobs, Loaded
  <1>2. job.loaded \in Seq(Contents) /\ job.obj.refs \in Seq(Refs)
    BY RefsType
  <1>3. Len(job.loaded) = Len(job.obj.refs) /\ job.obj.refs = view[r].refs
    BY DEF Loaded, ReadsShown
  <1>4. job.loaded = [i \in 1..Len(job.loaded) |-> job.loaded[i]]
    BY <1>2
  <1>5. DOMAIN view[r].refs = 1..Len(job.loaded)
    BY <1>2, <1>3
  <1>6. \A i \in 1..Len(job.loaded) : job.loaded[i] = contentView[view[r].refs[i]]
    BY <1>3 DEF ReadsShown
  <1>7. job.loaded = Shown(r)
    BY <1>4, <1>5, <1>6 DEF Shown
  <1>8. /\ job.obj.gen = view[r].gen /\ job.obj.skip = view[r].skip
        /\ view[r].exists
    <2>1. job.obj.skip \in BOOLEAN /\ view[r].skip \in BOOLEAN
      BY <1>1 DEF TypeOK, Jobs, Versions
    <2>2. job.obj.exists \in BOOLEAN /\ view[r].exists \in BOOLEAN
      BY <1>1 DEF TypeOK, Jobs, Versions
    <2> QED BY <2>1, <2>2 DEF ReadsShown, Triggers
  <1> QED BY <1>1, <1>7, <1>8

\* The reconciler.
LEMMA WorkTorn == Inv /\ TornInv /\ Work => TornInv'
  <1> SUFFICES ASSUME Inv, TornInv, Work PROVE TornInv'
    OBVIOUS
  <1>0. TypeOK /\ VersionsAgree /\ JobTorn /\ RestTorn /\ HistoryOrdered
    BY DEF Inv, OrderInv, TornInv
  <1>n. job.pc # "idle" => job.rs \in RuleSets
    BY <1>0 DEF TypeOK, Jobs
  <1>f. ASSUME job.pc # "idle", Failed, UNCHANGED <<object, log, view, contentView, queue, served>>
        PROVE  TornInv'
    <2>1. job' = Idle /\ retry \subseteq retry' /\ job.rs \in retry'
      BY <1>f DEF Failed
    <2>2. JobTorn' /\ RestTorn'
      BY <1>0, <1>f, <2>1, TornEnd
    <2>3. VersionsAgree'
      BY <1>0, <1>f DEF VersionsAgree
    <2> QED BY <2>2, <2>3 DEF TornInv
  <1>p. ASSUME job.pc # "idle", NEW status \in Statuses, PatchTo(job.rs, job.obj, status),
               job' = Idle, retry \subseteq retry',
               UNCHANGED <<view, contentView, queue, served>>,
               \/ job.rs \in retry' \/ job.pc = "ready"
               \/ Coming(job.rs) \/ Settled(job.rs)
        PROVE  TornInv'
    <2>1. /\ VersionsAgree'
          /\ \A s \in RuleSets : \A i \in DOMAIN log[s] :
               i \in DOMAIN log'[s] /\ log'[s][i] = log[s][i]
      BY <1>0, <1>n, <1>p, PatchTorn
    <2>2. JobTorn' /\ RestTorn'
      BY <1>0, <1>p, <2>1, TornEnd
    <2> QED BY <2>1, <2>2 DEF TornInv
  <1>d. ASSUME job.pc = "load", NEW reason \in Reasons, NEW about \in Seq(Refs \cup Contents),
               NEW retriable \in BOOLEAN, Degrade(reason, about, retriable),
               UNCHANGED <<view, contentView, queue, served>>,
               retriable \/ Coming(job.rs) \/ Settled(job.rs)
        PROVE  TornInv'
    <2>1. CASE CallFails(job.rs) /\ Failed
      BY <1>d, <1>f, <2>1 DEF CallFails
    <2>2. CASE /\ PatchTo(job.rs, job.obj, Degraded(job.obj.gen, reason, about))
               /\ IF retriable THEN Failed ELSE Done
      <3>1. Degraded(job.obj.gen, reason, about) \in Statuses
        BY <1>0, StatusTypes, GenTypes
      <3>2. job' = Idle /\ retry \subseteq retry' /\ (retriable => job.rs \in retry')
        BY <2>2 DEF Failed, Done
      <3> QED BY <1>d, <1>p, <2>2, <3>1, <3>2
    <2> QED BY <1>d, <2>1, <2>2 DEF Degrade
  <1>1. ASSUME NEW r \in RuleSets, Start(r) PROVE TornInv'
    <2>1. /\ UNCHANGED <<object, log, view, contentView, retry, served>>
          /\ queue' = queue \ {r} /\ job.pc = "idle"
      BY <1>1 DEF Start, clusterVars, viewVars
    <2>2. \A s \in RuleSets : job.rs # s
      BY <1>0, <2>1, RuleSetControllerAssumption DEF TypeOK
    <2>3. \A s \in RuleSets : s # r /\ Coming(s) => Coming(s)'
      BY <2>1 DEF Coming
    <2>4. \A s \in RuleSets : Settled(s) => Settled(s)'
      BY <2>1 DEF Settled, Acceptable, Shown
    <2>5. \A s \in RuleSets : s # r /\ s \notin retry' => Coming(s)' \/ Settled(s)'
      BY <1>0, <2>1, <2>2, <2>3, <2>4 DEF RestTorn
    <2>6. VersionsAgree'
      BY <1>0, <2>1 DEF VersionsAgree
    <2>7. CASE ~view[r].exists
      <3>1. job' = Idle
        BY <1>1, <2>7 DEF Start
      <3>2. JobTorn'
        BY <3>1 DEF JobTorn, Idle
      <3>3. Settled(r)'
        BY <2>1, <2>7 DEF Settled, Acceptable
      <3>4. RestTorn'
        BY <2>5, <3>3 DEF RestTorn
      <3> QED BY <2>6, <3>2, <3>4 DEF TornInv
    <2>8. CASE view[r].exists
      <3>1. job'.rs = r /\ job'.obj = view[r] /\ job'.loaded = <<>> /\ job'.pc # "ready"
        BY <1>1, <2>8 DEF Start
      <3>2. Len(<<>>) = 0 /\ Len(view[r].refs) \in Nat
        BY <1>0, RefsType
      <3>3. ReadsShown(r)'
        <4>1. ~Triggers(view[r], view[r])
          BY DEF Triggers
        <4>2. \A i \in 1..Len(job'.loaded) : FALSE
          BY <3>1, <3>2
        <4>3. Len(job'.loaded) <= Len(job'.obj.refs)
          BY <3>1, <3>2
        <4>4. view'[r] = view[r]
          BY <2>1
        <4> QED BY <2>8, <3>1, <4>1, <4>2, <4>3, <4>4 DEF ReadsShown
      <3>4. JobTorn'
        BY <3>1, <3>3 DEF JobTorn
      <3>5. RestTorn'
        BY <2>5, <3>1 DEF RestTorn
      <3> QED BY <2>6, <3>4, <3>5 DEF TornInv
    <2> QED BY <2>7, <2>8
  <1>2. ASSUME NEW r \in RuleSets, StartFails(r) PROVE TornInv'
    <2>1. /\ UNCHANGED <<object, log, view, contentView, job, served>>
          /\ queue' = queue \ {r} /\ job.pc = "idle" /\ retry' = retry \cup {r}
      BY <1>2 DEF StartFails, clusterVars, viewVars
    <2>2. \A s \in RuleSets : s # r /\ Coming(s) => Coming(s)'
      BY <2>1 DEF Coming
    <2>3. \A s \in RuleSets : Settled(s) => Settled(s)'
      BY <2>1 DEF Settled, Acceptable, Shown
    <2>4. RestTorn'
      BY <1>0, <2>1, <2>2, <2>3 DEF RestTorn
    <2>5. JobTorn'
      BY <2>1 DEF JobTorn
    <2>6. VersionsAgree'
      BY <1>0, <2>1 DEF VersionsAgree
    <2> QED BY <2>4, <2>5, <2>6 DEF TornInv
  <1>3. CASE InitializeStatus
    <2> DEFINE r == job.rs
    <2>1. UNCHANGED <<view, contentView, queue, served>> /\ job.pc = "init" /\ r \in RuleSets
      BY <1>3, <1>n DEF InitializeStatus, viewVars
    <2>2. CASE CallFails(job.rs) /\ Failed
      BY <1>f, <2>1, <2>2 DEF CallFails
    <2>3. CASE /\ PatchTo(job.rs, job.obj, Progressing(job.obj.gen))
               /\ job' = [job EXCEPT !.pc = "load", !.obj = object'[job.rs]]
               /\ UNCHANGED retry
      <3>1. Progressing(job.obj.gen) \in Statuses
        BY <1>0, StatusTypes, GenTypes
      <3>2. /\ VersionsAgree'
            /\ \A s \in RuleSets : \A i \in DOMAIN log[s] :
                 i \in DOMAIN log'[s] /\ log'[s][i] = log[s][i]
            /\ object'[r].exists
            /\ log'[r] # <<>> => log'[r][Len(log'[r])] = object'[r]
            /\ log'[r] = <<>> => view[r] = object'[r]
        BY <1>0, <2>1, <2>3, <3>1, PatchTorn
      <3>t. TypeOK'
        BY <1>0, TypeNext DEF Next
      <3>3. \A s \in RuleSets : Coming(s) => Coming(s)'
        BY <2>1, <3>2 DEF Coming
      <3>4. \A s \in RuleSets : Settled(s) => Settled(s)'
        BY <2>1 DEF Settled, Acceptable, Shown
      <3>5. job'.rs = r /\ job'.obj = object'[r] /\ job'.loaded = job.loaded /\ job'.pc = "load"
        BY <1>0, <2>3 DEF TypeOK, Jobs
      <3>6. RestTorn'
        BY <1>0, <2>1, <2>3, <3>3, <3>4, <3>5 DEF RestTorn
      <3>7. CASE Triggers(view[r], object'[r])
        <4>1. log'[r] # <<>>
          BY <3>2, <3>7 DEF Triggers
        <4>2. log'[r] \in Seq(Versions)
          BY <2>1, <3>t DEF TypeOK
        <4>3. Len(log'[r]) \in DOMAIN log'[r]
          BY <4>1, <4>2
        <4>4. Coming(r)'
          <5>1. log'[r][Len(log'[r])] = object'[r] /\ view'[r] = view[r]
            BY <2>1, <3>2, <4>1
          <5>2. Triggers(view'[r], log'[r][Len(log'[r])])
            BY <3>7, <5>1
          <5> QED BY <3>5, <4>3, <5>2 DEF Coming
        <4> QED BY <3>2, <3>5, <3>6, <4>4 DEF TornInv, JobTorn
      <3>8. CASE ~Triggers(view[r], object'[r])
        <4>1. view[r].exists /\ view[r].gen = object'[r].gen
          BY <2>1, <3>2, <3>8, <3>t, <1>0 DEF Triggers, TypeOK, Versions
        <4>2. view[r].refs = object'[r].refs
          BY <2>1, <3>2, <4>1 DEF VersionsAgree, SameSpec
        <4>3. CASE Coming(r)
          BY <2>1, <3>2, <3>3, <3>5, <3>6, <4>3 DEF TornInv, JobTorn
        <4>4. CASE ReadsShown(r)
          <5>1. ReadsShown(r)'
            BY <2>1, <3>2, <3>5, <3>8, <4>2, <4>4 DEF ReadsShown
          <5> QED BY <3>2, <3>5, <3>6, <5>1 DEF TornInv, JobTorn
        <4> QED BY <1>0, <2>1, <4>3, <4>4 DEF JobTorn
      <3> QED BY <3>7, <3>8
    <2> QED BY <1>3, <2>2, <2>3 DEF InitializeStatus
  <1>4. CASE Load
    <2> DEFINE r == job.rs
    <2>1. /\ UNCHANGED <<object, log, view, contentView, queue, retry, served>>
          /\ job.pc = "load" /\ r \in RuleSets
          /\ job' = [job EXCEPT !.loaded = Append(@, contentView[NextRef])]
      BY <1>4, <1>n DEF Load, Loading, clusterVars, viewVars
    <2>2. \A s \in RuleSets : Coming(s) <=> Coming(s)'
      BY <2>1 DEF Coming
    <2>3. \A s \in RuleSets : Settled(s) => Settled(s)'
      BY <2>1 DEF Settled, Acceptable, Shown
    <2>4. /\ job'.rs = r /\ job'.obj = job.obj /\ job'.pc = "load"
          /\ job'.loaded = Append(job.loaded, contentView[NextRef])
      BY <1>0, <2>1 DEF TypeOK, Jobs
    <2>5. RestTorn'
      BY <1>0, <2>1, <2>2, <2>3, <2>4 DEF RestTorn
    <2>6. job.loaded \in Seq(Contents) /\ job.obj.refs \in Seq(Refs)
          /\ Len(job.loaded) < Len(job.obj.refs)
      BY <1>0, <1>4, RefsType DEF Load, Loading
    <2>7. /\ Len(job'.loaded) = Len(job.loaded) + 1
          /\ job'.loaded[Len(job.loaded) + 1] = contentView[job.obj.refs[Len(job.loaded) + 1]]
          /\ \A i \in 1..Len(job.loaded) : job'.loaded[i] = job.loaded[i]
      BY <1>0, <1>4, <2>4, <2>6 DEF NextRef, Load, TypeOK
    <2>8. ASSUME ReadsShown(r) PROVE ReadsShown(r)'
      <3>1. \A i \in 1..Len(job'.loaded) :
              i \in 1..Len(job.loaded) \/ i = Len(job.loaded) + 1
        BY <2>6, <2>7
      <3>2. \A i \in 1..Len(job'.loaded) : job'.loaded[i] = contentView[job.obj.refs[i]]
        BY <2>7, <2>8, <3>1 DEF ReadsShown
      <3>3. Len(job'.loaded) <= Len(job.obj.refs)
        BY <2>6, <2>7
      <3> QED BY <2>1, <2>4, <2>8, <3>2, <3>3 DEF ReadsShown
    <2>9. JobTorn'
      BY <1>0, <2>1, <2>2, <2>4, <2>8 DEF JobTorn
    <2>10. VersionsAgree'
      BY <1>0, <2>1 DEF VersionsAgree
    <2> QED BY <2>5, <2>9, <2>10 DEF TornInv
  <1>5. CASE LoadMissing
    <2> DEFINE r == job.rs
    <2>1. /\ UNCHANGED <<view, contentView, queue, served>> /\ job.pc = "load" /\ r \in RuleSets
          /\ Degrade(NotFound(NextRef), <<NextRef>>, FALSE)
      BY <1>5, <1>n DEF LoadMissing, Loading, viewVars
    <2>2. <<NextRef>> \in Seq(Refs \cup Contents) /\ NotFound(NextRef) \in Reasons
      BY <1>0, <1>5, NextRefType DEF LoadMissing, NotFound, Reasons
    <2>3. ASSUME ReadsShown(r) PROVE Settled(r)
      <3> DEFINE k == Len(job.loaded) + 1
      <3>1. job.loaded \in Seq(Contents) /\ job.obj.refs \in Seq(Refs)
            /\ Len(job.loaded) < Len(job.obj.refs) /\ view[r].refs = job.obj.refs
        BY <1>0, <1>5, <2>3, RefsType DEF LoadMissing, Loading, ReadsShown
      <3>2. k \in DOMAIN view[r].refs
        BY <3>1
      <3>3. contentView[view[r].refs[k]] = Absent
        BY <1>5, <3>1 DEF LoadMissing, NextRef
      <3>4. k \in DOMAIN Shown(r) /\ Shown(r)[k] = Absent
        BY <3>2, <3>3 DEF Shown
      <3> HIDE DEF k
      <3> QED BY <3>4 DEF Settled, Acceptable
    <2>4. Coming(r) \/ Settled(r)
      BY <1>0, <2>1, <2>3 DEF JobTorn
    <2> QED BY <1>d, <2>1, <2>2, <2>4
  <1>6. CASE LoadFails
    <2>1. /\ UNCHANGED <<view, contentView, queue, served>> /\ job.pc = "load" /\ Failed
      BY <1>6 DEF LoadFails, Loading, viewVars
    <2>2. job' = Idle /\ retry \subseteq retry' /\ job.rs \in retry'
      BY <2>1 DEF Failed
    <2>3. CASE UNCHANGED <<object, log>>
      BY <1>f, <2>1, <2>3
    <2>4. CASE PatchTo(job.rs, job.obj, Degraded(job.obj.gen, AccessError(NextRef), <<NextRef>>))
      <3>1. <<NextRef>> \in Seq(Refs \cup Contents) /\ AccessError(NextRef) \in Reasons
        BY <1>0, <1>6, NextRefType DEF LoadFails, AccessError, Reasons
      <3>2. Degraded(job.obj.gen, AccessError(NextRef), <<NextRef>>) \in Statuses
        BY <1>0, <3>1, StatusTypes, GenTypes
      <3> QED BY <1>p, <2>1, <2>2, <2>4, <3>2
    <2> QED BY <1>6, <2>3, <2>4 DEF LoadFails
  <1>7. CASE RejectInvalid
    <2>1. /\ UNCHANGED <<view, contentView, queue, served>> /\ job.pc = "load"
          /\ Degrade("InvalidRuleSet", job.loaded, TRUE)
      BY <1>7 DEF RejectInvalid, Loaded, viewVars
    <2>2. job.loaded \in Seq(Refs \cup Contents) /\ "InvalidRuleSet" \in Reasons
      BY <1>0, RefsType DEF Reasons
    <2> QED BY <1>d, <2>1, <2>2
  <1>8. CASE RejectUnsupported
    <2>1. /\ UNCHANGED <<view, contentView, queue, served>> /\ job.pc = "load"
          /\ Degrade("UnsupportedRules", job.loaded, FALSE)
          /\ Loaded /\ ~Accepted(job.obj, job.loaded)
      BY <1>8 DEF RejectUnsupported, Loaded, viewVars
    <2>2. job.loaded \in Seq(Refs \cup Contents) /\ "UnsupportedRules" \in Reasons
      BY <1>0, RefsType DEF Reasons
    <2>3. ASSUME ReadsShown(job.rs) PROVE Settled(job.rs)
      <3>1. job.loaded = Shown(job.rs) /\ job.obj.skip = view[job.rs].skip
        BY <1>0, <2>1, <2>3, AllRead
      <3>2. ~Accepted(view[job.rs], Shown(job.rs))
        BY <2>1, <3>1 DEF Accepted
      <3> QED BY <3>2 DEF Settled, Acceptable
    <2>4. Coming(job.rs) \/ Settled(job.rs)
      BY <1>0, <2>1, <2>3 DEF JobTorn
    <2> QED BY <1>d, <2>1, <2>2, <2>4
  <1>9. CASE PutRules
    <2> DEFINE r == job.rs
    <2>1. /\ UNCHANGED <<object, log, view, contentView, queue, retry>>
          /\ Loaded /\ job.pc = "load" /\ r \in RuleSets
          /\ job' = [job EXCEPT !.pc = "ready"]
          /\ served' = [served EXCEPT ![r] = [gen |-> job.obj.gen, skip |-> job.obj.skip,
                                              rules |-> job.loaded]]
      BY <1>9, <1>n DEF PutRules, Loaded, clusterVars, viewVars
    <2>2. \A s \in RuleSets : Coming(s) => Coming(s)'
      BY <2>1 DEF Coming
    <2>3. \A s \in RuleSets : s # r /\ Settled(s) => Settled(s)'
      BY <1>0, <2>1 DEF Settled, Acceptable, Shown, TypeOK
    <2>4. ASSUME ReadsShown(r) PROVE Settled(r)'
      <3>1. /\ job.loaded = Shown(r)
            /\ job.obj.gen = view[r].gen /\ job.obj.skip = view[r].skip
        BY <1>0, <2>1, <2>4, AllRead
      <3>2. served'[r] = [gen |-> view[r].gen, skip |-> view[r].skip, rules |-> Shown(r)]
        BY <1>0, <2>1, <3>1 DEF TypeOK
      <3>3. Shown(r)' = Shown(r)
        BY <2>1 DEF Shown
      <3> QED BY <2>1, <3>2, <3>3 DEF Settled
    <2>5. job'.rs = r /\ job'.pc = "ready"
      BY <1>0, <2>1 DEF TypeOK, Jobs
    <2>6. JobTorn'
      BY <2>5 DEF JobTorn
    <2>7. RestTorn'
      BY <1>0, <2>1, <2>2, <2>3, <2>4, <2>5 DEF RestTorn, JobTorn
    <2>8. VersionsAgree'
      BY <1>0, <2>1 DEF VersionsAgree
    <2> QED BY <2>6, <2>7, <2>8 DEF TornInv
  <1>10. CASE PatchReady
    <2>1. UNCHANGED <<view, contentView, queue, served>> /\ job.pc = "ready"
      BY <1>10 DEF PatchReady, viewVars
    <2>2. CASE CallFails(job.rs) /\ Failed
      BY <1>f, <2>1, <2>2 DEF CallFails
    <2>3. CASE PatchTo(job.rs, job.obj, Ready(job.obj.gen, job.loaded)) /\ Done
      <3>1. Ready(job.obj.gen, job.loaded) \in Statuses
        BY <1>0, StatusTypes, GenTypes, RefsType
      <3> QED BY <1>p, <2>1, <2>3, <3>1 DEF Done
    <2> QED BY <1>10, <2>2, <2>3 DEF PatchReady
  <1> QED BY <1>1, <1>2, <1>3, <1>4, <1>5, <1>6, <1>7, <1>8, <1>9, <1>10 DEF Work

\* Every step keeps it: what the informers learn finds its way into the queue.
LEMMA TornNext == Inv /\ TornInv /\ [Next]_vars => TornInv'
  <1> SUFFICES ASSUME Inv, TornInv, [Next]_vars PROVE TornInv'
    OBVIOUS
  <1>0. TypeOK /\ VersionsAgree /\ JobTorn /\ RestTorn
    BY DEF Inv, TornInv
  <1>n. job.pc # "idle" => job.rs \in RuleSets
    BY <1>0 DEF TypeOK, Jobs
  <1>1. ASSUME NEW r \in RuleSets, DeliverRuleSet(r) PROVE TornInv'
    <2>1. log[r] \in Seq(Versions) /\ log[r] # <<>>
      BY <1>0, <1>1 DEF DeliverRuleSet, TypeOK
    <2>2. /\ view'[r] = log[r][1] /\ log'[r] = Tail(log[r])
          /\ \A s \in RuleSets : s # r => view'[s] = view[s] /\ log'[s] = log[s]
          /\ UNCHANGED <<object, contentView, retry, job, served>>
          /\ queue \subseteq queue' /\ (Triggers(view[r], log[r][1]) => r \in queue')
      BY <1>0, <1>1, <2>1 DEF DeliverRuleSet, TypeOK
    <2>3. 1 \in DOMAIN log[r]
      BY <2>1
    <2>4. \A i \in DOMAIN Tail(log[r]) :
            i + 1 \in DOMAIN log[r] /\ Tail(log[r])[i] = log[r][i + 1]
      BY <2>1
    <2>5. \A i \in DOMAIN log[r] :
            i # 1 => i - 1 \in DOMAIN Tail(log[r]) /\ Tail(log[r])[i - 1] = log[r][i]
      BY <2>1
    <2>6. VersionsAgree'
      <3> SUFFICES ASSUME NEW s \in RuleSets
                   PROVE  /\ SameSpec(view'[s], object'[s])
                          /\ \A i \in DOMAIN log'[s] : /\ SameSpec(view'[s], log'[s][i])
                                                       /\ SameSpec(log'[s][i], object'[s])
                          /\ \A i, j \in DOMAIN log'[s] : SameSpec(log'[s][i], log'[s][j])
        BY DEF VersionsAgree
      <3>1. CASE s # r
        BY <1>0, <2>2, <3>1 DEF VersionsAgree
      <3>2. CASE s = r
        <4>1. /\ \A i \in DOMAIN log[r] : SameSpec(log[r][i], object[r])
              /\ \A i, j \in DOMAIN log[r] : SameSpec(log[r][i], log[r][j])
          BY <1>0 DEF VersionsAgree
        <4>2. SameSpec(view'[r], object'[r])
          BY <2>2, <2>3, <4>1
        <4>3. \A i \in DOMAIN log'[r] : \E j \in DOMAIN log[r] : log'[r][i] = log[r][j]
          BY <2>2, <2>4
        <4>4. \A i \in DOMAIN log'[r] : /\ SameSpec(view'[r], log'[r][i])
                                        /\ SameSpec(log'[r][i], object'[r])
          BY <2>2, <2>3, <4>1, <4>3
        <4>5. \A i, j \in DOMAIN log'[r] : SameSpec(log'[r][i], log'[r][j])
          BY <4>1, <4>3
        <4> QED BY <3>2, <4>2, <4>4, <4>5
      <3> QED BY <3>1, <3>2
    <2>7. \A s \in RuleSets : s # r /\ Coming(s) => Coming(s)'
      BY <2>2 DEF Coming
    <2>8. \A s \in RuleSets : s # r /\ Settled(s) => Settled(s)'
      BY <2>2 DEF Settled, Acceptable, Shown
    <2>9. \A s \in RuleSets : s # r /\ ReadsShown(s) => ReadsShown(s)'
      BY <2>2 DEF ReadsShown
    <2>10. CASE Triggers(view[r], log[r][1])
      <3>1. Coming(r)'
        BY <2>2, <2>10 DEF Coming
      <3>2. JobTorn'
        BY <1>0, <1>n, <2>2, <2>7, <2>9, <3>1 DEF JobTorn
      <3>3. RestTorn'
        BY <1>0, <2>2, <2>7, <2>8, <3>1 DEF RestTorn
      <3> QED BY <2>6, <3>2, <3>3 DEF TornInv
    <2>11. CASE ~Triggers(view[r], log[r][1])
      <3>1. log[r][1] \in Versions /\ view[r] \in Versions
        BY <1>0, <2>1, <2>3 DEF TypeOK
      <3>2. view'[r].exists = view[r].exists /\ view'[r].gen = view[r].gen /\ view'[r].skip = view[r].skip
        BY <2>2, <2>11, <3>1 DEF Triggers, Versions
      <3>3. view[r].exists => view'[r].refs = view[r].refs
        <4>1. SameSpec(view[r], log[r][1])
          BY <1>0, <2>3 DEF VersionsAgree
        <4> QED BY <2>2, <3>2, <4>1 DEF SameSpec
      <3>4. Coming(r) => Coming(r)'
        <4>1. ASSUME NEW i \in DOMAIN log[r], Triggers(view[r], log[r][i])
              PROVE  Coming(r)'
          <5>1. i # 1
            BY <2>11, <4>1
          <5>2. i - 1 \in DOMAIN log'[r] /\ log'[r][i - 1] = log[r][i]
            BY <2>2, <2>5, <5>1
          <5>3. Triggers(view'[r], log'[r][i - 1])
            BY <3>2, <4>1, <5>2 DEF Triggers
          <5> QED BY <5>2, <5>3 DEF Coming
        <4>2. r \in queue => Coming(r)'
          BY <2>2 DEF Coming
        <4> QED BY <4>1, <4>2 DEF Coming
      <3>5. view[r].exists => Shown(r)' = Shown(r)
        BY <2>2, <3>3 DEF Shown
      <3>6. Settled(r) => Settled(r)'
        <4> SUFFICES ASSUME Settled(r), Acceptable(r)' PROVE Settled(r)'
          BY DEF Settled
        <4>1. view[r].exists /\ Shown(r)' = Shown(r)
          BY <3>2, <3>5 DEF Acceptable
        <4>2. Acceptable(r)
          BY <3>2, <4>1 DEF Acceptable, Accepted
        <4> QED BY <2>2, <3>2, <4>1, <4>2 DEF Settled
      <3>7. ReadsShown(r) => ReadsShown(r)'
        <4> SUFFICES ASSUME ReadsShown(r) PROVE ReadsShown(r)'
          OBVIOUS
        <4>1. job.obj.exists /\ job.obj.exists \in BOOLEAN /\ view[r].exists \in BOOLEAN
          BY <1>0, <3>1 DEF ReadsShown, TypeOK, Jobs, Versions
        <4>2. view[r].exists
          BY <4>1 DEF ReadsShown, Triggers
        <4>3. ~Triggers(view'[r], job.obj)
          BY <3>2 DEF ReadsShown, Triggers
        <4> QED BY <2>2, <3>3, <4>2, <4>3 DEF ReadsShown
      <3>8. JobTorn'
        BY <1>0, <1>n, <2>2, <2>7, <2>9, <3>4, <3>7 DEF JobTorn
      <3>9. RestTorn'
        BY <1>0, <2>2, <2>7, <2>8, <3>4, <3>6 DEF RestTorn
      <3> QED BY <2>6, <3>8, <3>9 DEF TornInv
    <2> QED BY <2>10, <2>11
  <1>2. ASSUME NEW r \in RuleSets, RetryDue(r) PROVE TornInv'
    <2>1. /\ UNCHANGED <<object, log, view, contentView, job, served>>
          /\ queue' = queue \cup {r} /\ retry' = retry \ {r}
      BY <1>2 DEF RetryDue, clusterVars, viewVars
    <2>2. \A s \in RuleSets : (s = r \/ Coming(s)) => Coming(s)'
      BY <2>1 DEF Coming
    <2>3. \A s \in RuleSets : Settled(s) => Settled(s)'
      BY <2>1 DEF Settled, Acceptable, Shown
    <2>4. RestTorn'
      BY <1>0, <2>1, <2>2, <2>3 DEF RestTorn
    <2>5. JobTorn'
      BY <1>0, <1>n, <2>1, <2>2 DEF JobTorn, ReadsShown
    <2>6. VersionsAgree'
      BY <1>0, <2>1 DEF VersionsAgree
    <2> QED BY <2>4, <2>5, <2>6 DEF TornInv
  <1>3. ASSUME NEW ref \in Refs, DeliverContent(ref) PROVE TornInv'
    <2>1. /\ UNCHANGED <<object, log, view, retry, job, served>>
          /\ queue' = queue \cup findRuleSetsBy(ref)
          /\ contentView' = [contentView EXCEPT ![ref] = content[ref]]
      BY <1>3 DEF DeliverContent, clusterVars
    <2>2. \A x \in Refs : x # ref => contentView'[x] = contentView[x]
      BY <1>0, <2>1 DEF TypeOK
    <2>3. \A s \in RuleSets : Coming(s) => Coming(s)'
      BY <2>1 DEF Coming
    <2>4. ASSUME NEW s \in RuleSets, view[s].exists, ~Coming(s)'
          PROVE  \A i \in DOMAIN view[s].refs : contentView'[view[s].refs[i]] = contentView[view[s].refs[i]]
      <3>1. s \notin findRuleSetsBy(ref)
        BY <2>1, <2>4 DEF Coming
      <3>2. \A i \in DOMAIN view[s].refs : view[s].refs[i] # ref
        BY <2>4, <3>1 DEF findRuleSetsBy
      <3>3. \A i \in DOMAIN view[s].refs : view[s].refs[i] \in Refs
        <4>1. view[s].refs \in Seq(Refs)
          BY <1>0, RefsType
        <4> QED BY <4>1
      <3> QED BY <2>2, <3>2, <3>3
    <2>5. ASSUME NEW s \in RuleSets, Settled(s), ~Coming(s)' PROVE Settled(s)'
      <3>1. CASE ~view[s].exists
        BY <2>1, <3>1 DEF Settled, Acceptable
      <3>2. CASE view[s].exists
        <4>1. Shown(s)' = Shown(s)
          BY <2>1, <2>4, <2>5, <3>2 DEF Shown
        <4> QED BY <2>1, <2>5, <4>1 DEF Settled, Acceptable
      <3> QED BY <3>1, <3>2
    <2>6. RestTorn'
      BY <1>0, <2>1, <2>3, <2>5 DEF RestTorn
    <2>7. ASSUME NEW s \in RuleSets, ReadsShown(s), ~Coming(s)' PROVE ReadsShown(s)'
      <3>1. view[s].exists
        <4>1. job.obj.exists /\ job.obj.exists \in BOOLEAN /\ view[s].exists \in BOOLEAN
          BY <1>0, <2>7 DEF ReadsShown, TypeOK, Jobs, Versions
        <4> QED BY <2>7, <4>1 DEF ReadsShown, Triggers
      <3>2. \A i \in 1..Len(job.loaded) : i \in DOMAIN view[s].refs
        <4>1. view[s].refs \in Seq(Refs) /\ job.loaded \in Seq(Contents)
              /\ Len(job.loaded) <= Len(view[s].refs)
          BY <1>0, <2>7, RefsType DEF ReadsShown
        <4> QED BY <4>1
      <3> QED BY <2>1, <2>4, <2>7, <3>1, <3>2 DEF ReadsShown
    <2>8. JobTorn'
      BY <1>0, <1>n, <2>1, <2>3, <2>7 DEF JobTorn
    <2>9. VersionsAgree'
      BY <1>0, <2>1 DEF VersionsAgree
    <2> QED BY <2>6, <2>8, <2>9 DEF TornInv
  <1>4. CASE Restart
    <2>1. /\ \A r \in RuleSets : log'[r] = <<>> /\ view'[r] = object'[r]
          /\ job' = Idle /\ queue' = {r \in RuleSets : view'[r].exists}
      BY <1>4 DEF Restart
    <2>2. DOMAIN <<>> = {}
      OBVIOUS
    <2>3. VersionsAgree'
      BY <2>1, <2>2 DEF VersionsAgree, SameSpec
    <2>4. JobTorn'
      BY <2>1 DEF JobTorn, Idle
    <2>5. RestTorn'
      BY <2>1 DEF RestTorn, Coming, Settled, Acceptable
    <2> QED BY <2>3, <2>4, <2>5 DEF TornInv
  <1>5. CASE UNCHANGED vars
    <2>1. UNCHANGED <<object, log, view, contentView, queue, retry, job, served>>
      BY <1>5 DEF vars
    <2>2. JobTorn' /\ RestTorn'
      BY <1>0, <2>1, TornKept
    <2> QED BY <1>0, <2>1, <2>2 DEF TornInv, VersionsAgree
  <1> QED BY <1>1, <1>2, <1>3, <1>4, <1>5, UsersTorn, WorkTorn DEF Next

\* At first everything that exists is queued.
LEMMA TornInit == Init => TornInv
  <1> SUFFICES ASSUME Init PROVE TornInv
    OBVIOUS
  <1>1. /\ \A r \in RuleSets : log[r] = <<>> /\ view[r] = object[r]
        /\ job = Idle /\ queue = {r \in RuleSets : view[r].exists}
    BY DEF Init
  <1>2. DOMAIN <<>> = {}
    OBVIOUS
  <1>3. VersionsAgree
    BY <1>1, <1>2 DEF VersionsAgree, SameSpec
  <1>4. JobTorn
    BY <1>1 DEF JobTorn, Idle
  <1>5. RestTorn
    BY <1>1 DEF RestTorn, Coming, Settled, Acceptable
  <1> QED BY <1>3, <1>4, <1>5 DEF TornInv

\* A RuleSet that nothing is going to reconcile any more, and whose informer has
\* caught up, has in the cache just what the informers show of it and of the
\* objects it names: whatever was put together from reads of different times is
\* replaced, for any lag, faults, restarts and interleaving of edits and reads.
THEOREM TornReadsAreReplaced == Spec => []NothingTornAtRest
  <1>1. Inv /\ TornInv => NothingTornAtRest
    <2> SUFFICES ASSUME Inv, TornInv, NEW r \in RuleSets, ~Pending(r), log[r] = <<>>,
                        Acceptable(r)
                 PROVE  served[r] = [gen |-> view[r].gen, skip |-> view[r].skip, rules |-> Shown(r)]
      BY DEF NothingTornAtRest, Acceptable
    <2>1. DOMAIN <<>> = {}
      OBVIOUS
    <2>2. ~Coming(r)
      BY <2>1 DEF Pending, Coming
    <2> QED BY <2>2 DEF TornInv, RestTorn, Settled, Pending
  <1>2. Init => Inv /\ TornInv
    BY InvInit, TornInit
  <1>3. (Inv /\ TornInv) /\ [Next]_vars => (Inv /\ TornInv)'
    BY InvNext, TornNext
  <1> QED BY <1>1, <1>2, <1>3, PTL DEF Spec
=============================================================================
