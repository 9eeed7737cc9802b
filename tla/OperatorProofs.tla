--------------------------- MODULE OperatorProofs ---------------------------
(***************************************************************************)
(* What Gateways run, for any number of replicas, plugins, edits, exits and*)
(* faults: proofs about the operator as it is deployed.                    *)
(***************************************************************************)
EXTENDS Operator, TLAPS

\* The chart's initial state has its types.
LEMMA TypeInit == Init => TypeOK
  BY OperatorAssumption DEF Init, TypeOK, NewPlugin, Prerequisites, Acting

\* What a cache returns is an entry.
LEMMA EntryOf ==
  ASSUME TypeOK, NEW r \in Replicas, cache[r] # NoEntry
  PROVE  cache[r] \in Entry /\ cache[r].uuid \in Nat \ {0} /\ cache[r].gen \in Nat \ {0}
  BY DEF TypeOK, Entry

\* A plugin is connected to a replica that is up, or to none.
LEMMA ConnOf ==
  ASSUME TypeOK, NEW p \in Plugins, plugin[p].conn # NoConn
  PROVE  plugin[p].conn \in up /\ plugin[p].conn \in Replicas
  BY DEF TypeOK

\* The types of what only processes change.
ProcessTypes ==
    /\ up \subseteq deployed
    /\ lease \in up \cup {Free, Stale}
    /\ seen \in [Replicas -> 0..spec]
    /\ \A r \in Replicas : Acting(r) => seen[r] # 0
    /\ todo \subseteq {r \in up : Acting(r)}
    /\ prereq \in [Replicas -> Prerequisites \cup {"none"}]
    /\ \A r \in Replicas : prereq[r] # "none" => Acting(r)
    /\ since \in [Replicas -> 0..puts]

\* Every action keeps the types.
LEMMA TypeNext == TypeOK /\ [Next]_vars => TypeOK'
  <1> SUFFICES ASSUME TypeOK, [Next]_vars
               PROVE  TypeOK'
    OBVIOUS
  <1> USE OperatorAssumption
  <1>t. ProcessTypes
    BY DEF TypeOK, ProcessTypes
  <1>1. ASSUME NEW r \in Replicas, Engage(r), UNCHANGED <<spec, puts>>,
               Acting(r)', \A s \in Replicas : s # r => (Acting(s)' <=> Acting(s)),
               up' \subseteq deployed', lease' \in up' \cup {Free, Stale}
        PROVE  ProcessTypes'
    <2>1. PICK g \in 1..spec : seen' = [seen EXCEPT ![r] = g]
      BY <1>1 DEF Engage
    <2>2. seen' \in [Replicas -> 0..spec'] /\ \A s \in Replicas : Acting(s)' => seen'[s] # 0
      BY <1>1, <1>t, <2>1 DEF ProcessTypes, TypeOK
    <2>3. todo' \subseteq {s \in up' : Acting(s)'}
      BY <1>1, <1>t DEF ProcessTypes, Engage, TypeOK, Acting
    <2>4. /\ prereq' \in [Replicas -> Prerequisites \cup {"none"}]
          /\ \A s \in Replicas : prereq'[s] # "none" => Acting(s)'
      BY <1>1, <1>t DEF ProcessTypes, Engage, Prerequisites
    <2>5. since' \in [Replicas -> 0..puts']
      BY <1>1, <1>t DEF ProcessTypes, Engage, TypeOK
    <2> QED BY <1>1, <2>2, <2>3, <2>4, <2>5 DEF ProcessTypes
  <1>2. ASSUME NEW r \in Replicas, Start(r)
        PROVE  TypeOK'
    <2>0. /\ up' = up \cup {r} /\ r \in deployed \ up
          /\ UNCHANGED <<flags, spec, bad, lease, puts, istio, plugin, bounds>>
          /\ cache' \in [Replicas -> Entry \cup {NoEntry}]
      BY <1>2 DEF Start, TypeOK
    <2>1. plugin' \in [Plugins -> [pc : {"idle", "fetch"}, uuid : Nat, rules : Nat,
                                   conn : up' \cup {NoConn}]]
      BY <2>0 DEF TypeOK
    <2>2. CASE leaderElect
      <3>1. \A s \in Replicas : Acting(s)' <=> Acting(s)
        BY <2>0, <2>2 DEF Acting, TypeOK, flags
      <3>2. UNCHANGED <<seen, todo, prereq, since>>
        BY <1>2, <2>2 DEF Start
      <3>3. todo' \subseteq {s \in up' : Acting(s)'}
        BY <2>0, <3>1, <3>2 DEF TypeOK
      <3>4. ProcessTypes'
        BY <1>t, <2>0, <3>1, <3>2, <3>3 DEF ProcessTypes, flags
      <3> QED BY <2>0, <2>1, <3>4 DEF TypeOK, ProcessTypes, flags, bounds
    <2>3. CASE ~leaderElect
      <3>1. Engage(r)
        BY <1>2, <2>3 DEF Start
      <3>2. Acting(r)' /\ \A s \in Replicas : s # r => (Acting(s)' <=> Acting(s))
        BY <2>0, <2>3 DEF Acting, flags
      <3>3. ProcessTypes'
        BY <1>1, <1>t, <2>0, <3>1, <3>2 DEF ProcessTypes, flags
      <3> QED BY <2>0, <2>1, <3>3 DEF TypeOK, ProcessTypes, flags, bounds
    <2> QED BY <2>2, <2>3
  <1>3. ASSUME NEW r \in Replicas, AcquireLease(r)
        PROVE  TypeOK'
    <2>0. /\ lease' = r /\ r \in up /\ leaderElect /\ lease = Free /\ Engage(r)
          /\ UNCHANGED <<flags, spec, bad, up, cache, puts, istio, plugin, bounds>>
      BY <1>3 DEF AcquireLease
    <2>1. Acting(r)' /\ \A s \in Replicas : s # r => (Acting(s)' <=> Acting(s))
      BY <2>0 DEF Acting, flags
    <2>2. ProcessTypes'
      BY <1>1, <1>t, <2>0, <2>1 DEF ProcessTypes, flags
    <2> QED BY <2>0, <2>2 DEF TypeOK, ProcessTypes, flags, bounds
  <1>4. ASSUME NEW r \in Replicas, Exit(r)
        PROVE  TypeOK'
    <2>1. \A s \in Replicas : Acting(s)' <=> (Acting(s) /\ s # r)
      BY <1>4 DEF Exit, Exited, Acting, flags, TypeOK
    <2>2. plugin' \in [Plugins -> [pc : {"idle", "fetch"}, uuid : Nat, rules : Nat,
                                   conn : up' \cup {NoConn}]]
      BY <1>4 DEF Exit, TypeOK
    <2>3. lease' \in up' \cup {Free, Stale} /\ up' \subseteq deployed'
      BY <1>4 DEF Exit, Exited, TypeOK, flags
    <2>4. todo' \subseteq {s \in up' : Acting(s)'}
      BY <1>4, <2>1 DEF Exit, Exited, TypeOK
    <2>5. /\ seen' \in [Replicas -> 0..spec'] /\ prereq' \in [Replicas -> Prerequisites \cup {"none"}]
          /\ since' \in [Replicas -> 0..puts']
          /\ \A s \in Replicas : /\ Acting(s)' => seen'[s] # 0
                                 /\ prereq'[s] # "none" => Acting(s)'
      BY <1>4, <2>1 DEF Exit, Exited, TypeOK
    <2>6. cache' \in [Replicas -> Entry \cup {NoEntry}] /\ exits' \in Nat
      BY <1>4 DEF Exit, Exited, TypeOK
    <2> QED BY <1>4, <2>2, <2>3, <2>4, <2>5, <2>6 DEF Exit, Exited, TypeOK, flags
  <1>5. CASE ExpireLease
    <2>1. \A s \in Replicas : Acting(s)' <=> Acting(s)
      BY <1>5 DEF ExpireLease, Acting, flags
    <2> QED BY <1>5, <2>1 DEF ExpireLease, flags, bounds, TypeOK
  <1>6. ASSUME NEW r \in Replicas, Deliver(r)
        PROVE  TypeOK'
    <2>1. \A s \in Replicas : Acting(s)' <=> Acting(s)
      BY <1>6 DEF Deliver, Acting, flags
    <2>2. PICK g \in (seen[r] + 1)..spec : seen' = [seen EXCEPT ![r] = g]
      BY <1>6 DEF Deliver
    <2>3. seen' \in [Replicas -> 0..spec'] /\ \A s \in Replicas : Acting(s)' => seen'[s] # 0
      BY <1>6, <2>1, <2>2 DEF Deliver, TypeOK
    <2>4. todo' \subseteq {s \in up' : Acting(s)'}
      BY <1>6, <2>1 DEF Deliver, TypeOK, Acting
    <2> QED BY <1>6, <2>1, <2>3, <2>4 DEF Deliver, flags, bounds, TypeOK
  <1>7. ASSUME NEW r \in Replicas, Reconcile(r)
        PROVE  TypeOK'
    <2>1. \A s \in Replicas : Acting(s)' <=> Acting(s)
      BY <1>7 DEF Reconcile, Acting, flags
    <2>2. puts' \in Nat /\ puts <= puts' /\ cache' \in [Replicas -> Entry \cup {NoEntry}]
      <3>1. CASE seen[r] \in bad
        BY <1>7, <3>1 DEF Reconcile, TypeOK
      <3>2. CASE seen[r] \notin bad
        <4>1. [uuid |-> puts + 1, gen |-> seen[r]] \in Entry
          BY <1>7 DEF Reconcile, TypeOK, Entry
        <4> QED BY <1>7, <3>2, <4>1 DEF Reconcile, TypeOK
      <3> QED BY <3>1, <3>2
    <2>3. since' \in [Replicas -> 0..puts']
      BY <1>7, <2>2 DEF Reconcile, TypeOK
    <2> QED BY <1>7, <2>1, <2>2, <2>3 DEF Reconcile, flags, bounds, TypeOK
  <1>8. ASSUME NEW r \in Replicas, ApplyPrerequisite(r) \/ PrerequisiteFails(r)
        PROVE  TypeOK'
    <2>1. \A s \in Replicas : Acting(s)' <=> Acting(s)
      BY <1>8 DEF ApplyPrerequisite, PrerequisiteFails, Acting, flags
    <2>2. /\ prereq' \in [Replicas -> Prerequisites \cup {"none"}]
          /\ \A s \in Replicas : prereq'[s] # "none" => Acting(s)'
          /\ istio' \subseteq Prerequisites /\ faults' \in Nat
      <3>1. CASE ApplyPrerequisite(r)
        <4>1. prereq[r] \in Prerequisites /\ AfterPrerequisite(prereq[r]) \in Prerequisites \cup {"none"}
          BY <3>1 DEF ApplyPrerequisite, AfterPrerequisite, Prerequisites, TypeOK
        <4> QED BY <3>1, <2>1, <4>1 DEF ApplyPrerequisite, TypeOK, bounds
      <3>2. CASE PrerequisiteFails(r)
        BY <3>2, <2>1 DEF PrerequisiteFails, TypeOK
      <3> QED BY <1>8, <3>1, <3>2
    <2> QED BY <1>8, <2>1, <2>2
        DEF ApplyPrerequisite, PrerequisiteFails, flags, bounds, TypeOK
  <1>9. ASSUME NEW p \in Plugins, NEW r \in Replicas,
               \/ Connect(p, r) \/ Disconnect(p) \/ PollLatest(p)
               \/ FetchRules(p) \/ RestartGateway(p)
        PROVE  TypeOK'
    <2>1. UNCHANGED <<flags, spec, bad, processVars, istio, edits, exits, faults>>
      BY <1>9 DEF Connect, Disconnect, PollLatest, FetchRules, RestartGateway, bounds
    <2>2. \A s \in Replicas : Acting(s)' <=> Acting(s)
      BY <2>1 DEF Acting, flags, processVars
    <2>3. plugin' \in [Plugins -> [pc : {"idle", "fetch"}, uuid : Nat, rules : Nat,
                                   conn : up \cup {NoConn}]]
      <3>1. CASE Connect(p, r) \/ Disconnect(p) \/ PollLatest(p) \/ RestartGateway(p)
        BY <3>1 DEF Connect, Disconnect, PollLatest, RestartGateway, NewPlugin, TypeOK
      <3>2. CASE FetchRules(p)
        <4>1. CASE cache[plugin[p].conn] = NoEntry
          BY <3>2, <4>1 DEF FetchRules, TypeOK
        <4>2. CASE cache[plugin[p].conn] # NoEntry
          BY <3>2, <4>2, EntryOf, ConnOf DEF FetchRules, TypeOK
        <4> QED BY <4>1, <4>2
      <3> QED BY <1>9, <3>1, <3>2
    <2>4. breaks' \in Nat
      BY <1>9 DEF Connect, Disconnect, PollLatest, FetchRules, RestartGateway, bounds, TypeOK
    <2> QED BY <2>1, <2>2, <2>3, <2>4 DEF flags, processVars, TypeOK
  <1>10. ASSUME NEW isBad \in BOOLEAN, Edit(isBad)
         PROVE  TypeOK'
    <2>1. \A s \in Replicas : Acting(s)' <=> Acting(s)
      BY <1>10 DEF Edit, Acting, flags, processVars
    <2>2. spec' = spec + 1 /\ spec' \in Nat \ {0} /\ bad' \subseteq 1..spec' /\ edits' \in Nat
      BY <1>10 DEF Edit, TypeOK
    <2>3. seen' \in [Replicas -> 0..spec']
      BY <1>10, <2>2 DEF Edit, processVars, TypeOK
    <2> QED BY <1>10, <2>1, <2>2, <2>3 DEF Edit, flags, processVars, TypeOK
  <1>11. CASE UNCHANGED vars
    <2>1. \A s \in Replicas : Acting(s)' <=> Acting(s)
      BY <1>11 DEF Acting, vars
    <2> QED BY <1>11, <2>1 DEF vars, TypeOK
  <1>12. ASSUME NEW p \in Plugins,
                PollLatest(p) \/ FetchRules(p) \/ Disconnect(p) \/ RestartGateway(p)
         PROVE  TypeOK'
    <2>1. PICK r \in Replicas : TRUE
      OBVIOUS
    <2> QED BY <1>9, <1>12, <2>1
  <1> QED
    BY <1>2, <1>3, <1>4, <1>5, <1>6, <1>7, <1>8, <1>9, <1>10, <1>11, <1>12 DEF Next

\* TypeOK for any replicas and plugins: only what acts has work, whatever Start,
\* the lease, Exit, the informers, the reconciler, the prerequisites, the plugins
\* and the users do.
THEOREM TypeCorrect == Spec => []TypeOK
  <1>1. Init => TypeOK
    BY TypeInit
  <1>2. TypeOK /\ [Next]_vars => TypeOK'
    BY TypeNext
  <1> QED BY <1>1, <1>2, PTL DEF Spec

-----------------------------------------------------------------------------
\* More than one replica needs leader election.
Deployment == \A r, s \in deployed : leaderElect \/ r = s

\* What has an entry acts, and put it in its present term from what its informer
\* showed; with nothing queued it serves that, unless that is rejected.
OwnEntries ==
    \A r \in Replicas : cache[r] # NoEntry =>
      /\ Acting(r)
      /\ cache[r].gen \in (1..seen[r]) \ bad
      /\ since[r] < cache[r].uuid /\ cache[r].uuid <= puts
      /\ r \in todo \/ cache[r].gen = seen[r] \/ seen[r] \in bad

\* What a plugin got in the present term it got from the one that acts, which
\* has not gone back since.
OwnTerm ==
    /\ \A p \in Plugins : plugin[p].rules <= spec /\ plugin[p].uuid <= puts
    /\ \A r \in Replicas, p \in Plugins :
         Acting(r) /\ plugin[p].uuid > since[r] =>
           cache[r] # NoEntry /\ plugin[p].rules <= cache[r].gen

\* The inductive invariant.
Inv == TypeOK /\ OnlyAcceptedRuns /\ Deployment /\ OwnEntries /\ OwnTerm

\* Two replicas never act at once: one lease, or one replica.
LEMMA ActingUnique ==
  ASSUME Inv, NEW r \in Replicas, NEW s \in Replicas, Acting(r), Acting(s)
  PROVE  r = s
  BY DEF Inv, TypeOK, Deployment, Acting

\* The initial caches and plugins are empty.
LEMMA InvInit == Init => Inv
  <1> SUFFICES ASSUME Init PROVE Inv
    OBVIOUS
  <1>1. TypeOK
    BY TypeInit
  <1>2. OnlyAcceptedRuns
    BY <1>1 DEF Init, NewPlugin, OnlyAcceptedRuns, TypeOK
  <1>3. Deployment /\ OwnEntries /\ OwnTerm
    BY <1>1, OperatorAssumption
    DEF Init, NewPlugin, Deployment, OwnEntries, OwnTerm, TypeOK, Acting
  <1> QED BY <1>1, <1>2, <1>3 DEF Inv

\* Beginning to act opens a term in which nothing was put yet.
LEMMA EngageTerm ==
  ASSUME Inv, NEW r \in Replicas, Engage(r), UNCHANGED <<spec, bad, puts, plugin>>,
         TypeOK', \A s \in Replicas : s # r => (Acting(s)' => Acting(s)),
         cache'[r] = NoEntry, \A s \in Replicas : s # r => cache'[s] = cache[s],
         \A s \in Replicas : s # r => (Acting(s) => Acting(s)')
  PROVE  OwnEntries' /\ OwnTerm'
  <1> USE DEF Inv, TypeOK
  <1>1. \A s \in Replicas : s # r => /\ seen'[s] = seen[s] /\ since'[s] = since[s]
                                     /\ s \in todo => s \in todo'
    BY DEF Engage
  <1>2. since'[r] = puts
    BY DEF Engage
  <1>3. OwnEntries'
    <2> SUFFICES ASSUME NEW s \in Replicas, cache'[s] # NoEntry
                 PROVE  /\ Acting(s)'
                        /\ cache'[s].gen \in (1..seen'[s]) \ bad'
                        /\ since'[s] < cache'[s].uuid /\ cache'[s].uuid <= puts'
                        /\ s \in todo' \/ cache'[s].gen = seen'[s] \/ seen'[s] \in bad'
      BY DEF OwnEntries
    <2>1. s # r /\ cache'[s] = cache[s]
      OBVIOUS
    <2> QED BY <2>1, <1>1 DEF OwnEntries
  <1>4. OwnTerm'
    BY <1>1, <1>2 DEF OwnTerm
  <1> QED BY <1>3, <1>4

\* A step that leaves the processes and the rules that plugins run as they are
\* keeps the invariant.
LEMMA InvKept ==
  ASSUME Inv, TypeOK',
         UNCHANGED <<deployed, leaderElect, spec, bad, up, lease, seen, todo, cache, puts, since>>,
         \A p \in Plugins : /\ plugin'[p].rules = plugin[p].rules
                            /\ plugin'[p].uuid = plugin[p].uuid
  PROVE  Inv'
  <1>1. \A s \in Replicas : Acting(s)' <=> Acting(s)
    BY DEF Acting
  <1>2. OnlyAcceptedRuns' /\ Deployment'
    BY DEF Inv, OnlyAcceptedRuns, Deployment
  <1>3. OwnEntries'
    BY <1>1 DEF Inv, OwnEntries
  <1>4. OwnTerm'
    BY <1>1 DEF Inv, OwnTerm
  <1> QED BY <1>2, <1>3, <1>4 DEF Inv

\* Every action keeps the invariant, one step for each.
LEMMA InvNext == Inv /\ [Next]_vars => Inv'
  <1> SUFFICES ASSUME Inv, [Next]_vars PROVE Inv'
    OBVIOUS
  <1>t. TypeOK /\ TypeOK'
    BY TypeNext DEF Inv
  <1> USE <1>t, OperatorAssumption
  <1>1. ASSUME NEW r \in Replicas, Start(r)
        PROVE  Inv'
    <2>0. /\ r \notin up /\ up' = up \cup {r} /\ UNCHANGED <<flags, spec, bad, lease, puts, plugin>>
          /\ cache'[r] = NoEntry /\ \A s \in Replicas : s # r => cache'[s] = cache[s]
      BY <1>1 DEF Start, TypeOK
    <2>1. OnlyAcceptedRuns' /\ Deployment'
      BY <2>0 DEF Inv, OnlyAcceptedRuns, Deployment, flags
    <2>2. CASE leaderElect
      <3>1. \A s \in Replicas : Acting(s)' <=> Acting(s)
        BY <2>0, <2>2 DEF Acting, TypeOK, flags
      <3>2. UNCHANGED <<seen, todo, since>>
        BY <1>1, <2>2 DEF Start
      <3>3. OwnEntries'
        BY <2>0, <3>1, <3>2 DEF Inv, OwnEntries
      <3>4. ~Acting(r)
        BY <2>0 DEF Acting
      <3>5. OwnTerm'
        BY <2>0, <3>1, <3>2, <3>4 DEF Inv, OwnTerm
      <3> QED BY <2>1, <3>3, <3>5 DEF Inv
    <2>3. CASE ~leaderElect
      <3>1. Engage(r)
        BY <1>1, <2>3 DEF Start
      <3>2. \A s \in Replicas : s # r => (Acting(s)' <=> Acting(s))
        BY <2>0, <2>3 DEF Acting, flags
      <3> QED BY <2>0, <2>1, <3>1, <3>2, EngageTerm DEF Inv
    <2> QED BY <2>2, <2>3
  <1>2. ASSUME NEW r \in Replicas, AcquireLease(r)
        PROVE  Inv'
    <2>0. /\ lease' = r /\ r \in up /\ leaderElect /\ lease = Free /\ Engage(r)
          /\ UNCHANGED <<flags, spec, bad, up, cache, puts, plugin>>
      BY <1>2 DEF AcquireLease
    <2>1. \A s \in Replicas : ~Acting(s)
      BY <2>0 DEF Acting
    <2>2. \A s \in Replicas : s # r => (Acting(s)' <=> Acting(s))
      BY <2>0, <2>1 DEF Acting, flags
    <2>3. \A s \in Replicas : cache[s] = NoEntry
      BY <2>1 DEF Inv, OwnEntries
    <2>4. OnlyAcceptedRuns' /\ Deployment'
      BY <2>0 DEF Inv, OnlyAcceptedRuns, Deployment, flags
    <2> QED BY <2>0, <2>2, <2>3, <2>4, EngageTerm DEF Inv
  <1>3. ASSUME NEW r \in Replicas, Exit(r)
        PROVE  Inv'
    <2>0. /\ UNCHANGED <<deployed, leaderElect, spec, bad, puts>>
          /\ \A p \in Plugins : plugin'[p].rules = plugin[p].rules /\ plugin'[p].uuid = plugin[p].uuid
          /\ cache'[r] = NoEntry
          /\ \A s \in Replicas : s # r => /\ cache'[s] = cache[s] /\ seen'[s] = seen[s]
                                          /\ since'[s] = since[s] /\ (s \in todo <=> s \in todo')
      BY <1>3 DEF Exit, Exited, flags, TypeOK
    <2>1. \A s \in Replicas : Acting(s)' <=> (Acting(s) /\ s # r)
      BY <1>3 DEF Exit, Exited, Acting, flags, TypeOK
    <2>2. OnlyAcceptedRuns' /\ Deployment'
      BY <2>0 DEF Inv, OnlyAcceptedRuns, Deployment
    <2>3. OwnEntries'
      BY <2>0, <2>1 DEF Inv, OwnEntries
    <2>4. OwnTerm'
      BY <2>0, <2>1 DEF Inv, OwnTerm
    <2> QED BY <2>2, <2>3, <2>4 DEF Inv
  <1>4. CASE ExpireLease
    <2>0. UNCHANGED <<deployed, leaderElect, spec, bad, up, seen, todo, cache, puts, plugin, since>>
      BY <1>4 DEF ExpireLease, flags
    <2>1. \A s \in Replicas : Acting(s)' <=> Acting(s)
      BY <1>4 DEF ExpireLease, Acting, flags
    <2>2. OnlyAcceptedRuns' /\ Deployment'
      BY <2>0 DEF Inv, OnlyAcceptedRuns, Deployment
    <2>3. OwnEntries' /\ OwnTerm'
      BY <2>0, <2>1 DEF Inv, OwnEntries, OwnTerm
    <2> QED BY <2>2, <2>3 DEF Inv
  <1>5. ASSUME NEW r \in Replicas, Deliver(r)
        PROVE  Inv'
    <2>0. UNCHANGED <<deployed, leaderElect, spec, bad, up, lease, cache, puts, plugin, since>>
      BY <1>5 DEF Deliver, flags
    <2>1. \A s \in Replicas : Acting(s)' <=> Acting(s)
      BY <2>0 DEF Acting
    <2>2. OnlyAcceptedRuns' /\ Deployment' /\ OwnTerm'
      BY <2>0, <2>1 DEF Inv, OnlyAcceptedRuns, Deployment, OwnTerm
    <2>3. \A s \in Replicas : /\ seen[s] \in Nat /\ seen'[s] \in Nat /\ seen[s] <= seen'[s]
                              /\ s # r => seen'[s] = seen[s] /\ (s \in todo => s \in todo')
      BY <1>5 DEF Deliver, TypeOK
    <2>4. r \in todo'
      BY <1>5 DEF Deliver
    <2>5. OwnEntries'
      BY <2>0, <2>1, <2>3, <2>4, EntryOf DEF Inv, OwnEntries
    <2> QED BY <2>2, <2>5 DEF Inv
  <1>6. ASSUME NEW r \in Replicas, Reconcile(r)
        PROVE  Inv'
    <2>0. UNCHANGED <<deployed, leaderElect, spec, bad, up, lease, seen, plugin, since>>
      BY <1>6 DEF Reconcile, flags
    <2>1. \A s \in Replicas : Acting(s)' <=> Acting(s)
      BY <2>0 DEF Acting
    <2>2. OnlyAcceptedRuns' /\ Deployment'
      BY <2>0 DEF Inv, OnlyAcceptedRuns, Deployment
    <2>3. /\ Acting(r) /\ r \in todo /\ todo' = todo \ {r}
          /\ seen[r] \in Nat /\ puts \in Nat /\ since[r] <= puts
      BY <1>6 DEF Reconcile, TypeOK
    <2>4. CASE seen[r] \in bad
      <3>1. UNCHANGED <<cache, puts>>
        BY <1>6, <2>4 DEF Reconcile
      <3>2. OwnEntries'
        BY <2>0, <2>1, <2>3, <2>4, <3>1 DEF Inv, OwnEntries
      <3>3. OwnTerm'
        BY <2>0, <2>1, <3>1 DEF Inv, OwnTerm
      <3> QED BY <2>2, <3>2, <3>3 DEF Inv
    <2>5. CASE seen[r] \notin bad
      <3>1. /\ cache'[r] = [uuid |-> puts + 1, gen |-> seen[r]] /\ puts' = puts + 1
            /\ \A s \in Replicas : s # r => cache'[s] = cache[s]
        BY <1>6, <2>5 DEF Reconcile, TypeOK
      <3>2. seen[r] \in 1..seen[r]
        BY <2>3 DEF TypeOK
      <3>3. \A s \in Replicas : s # r => cache'[s] = NoEntry
        BY <2>3, <3>1, ActingUnique DEF Inv, OwnEntries
      <3>4. OwnEntries'
        BY <2>0, <2>1, <2>3, <2>5, <3>1, <3>2, <3>3 DEF OwnEntries, TypeOK
      <3>5. \A p \in Plugins : plugin[p].uuid > since[r] => plugin[p].rules <= seen[r]
        BY <2>3, EntryOf DEF Inv, OwnTerm, OwnEntries, TypeOK
      <3>6. \A s \in Replicas : Acting(s) => s = r
        BY <2>3, ActingUnique
      <3>7. cache'[r] # NoEntry
        BY <2>3, <3>1, <3>2 DEF Entry
      <3>8. OwnTerm'
        BY <2>0, <2>1, <3>1, <3>5, <3>6, <3>7 DEF Inv, OwnTerm, TypeOK
      <3> QED BY <2>2, <3>4, <3>8 DEF Inv
    <2> QED BY <2>4, <2>5
  <1>7. ASSUME NEW r \in Replicas, ApplyPrerequisite(r) \/ PrerequisiteFails(r)
        PROVE  Inv'
    <2>1. UNCHANGED <<deployed, leaderElect, spec, bad, up, lease, seen, todo, cache, puts,
                      since, plugin>>
      BY <1>7 DEF ApplyPrerequisite, PrerequisiteFails, flags
    <2> QED BY <2>1, InvKept
  <1>8. ASSUME NEW p \in Plugins, NEW r \in Replicas,
               Connect(p, r) \/ Disconnect(p) \/ PollLatest(p)
        PROVE  Inv'
    <2>1. UNCHANGED <<deployed, leaderElect, spec, bad, up, lease, seen, todo, cache, puts, since>>
      BY <1>8 DEF Connect, Disconnect, PollLatest, flags, processVars
    <2>2. \A q \in Plugins : plugin'[q].rules = plugin[q].rules /\ plugin'[q].uuid = plugin[q].uuid
      BY <1>8 DEF Connect, Disconnect, PollLatest, TypeOK
    <2> QED BY <2>1, <2>2, InvKept
  <1>9. ASSUME NEW p \in Plugins, FetchRules(p)
        PROVE  Inv'
    <2> DEFINE r == plugin[p].conn
    <2>0. UNCHANGED <<deployed, leaderElect, spec, bad, up, lease, seen, todo, cache, puts, since>>
      BY <1>9 DEF FetchRules, flags, processVars
    <2>1. \A q \in Plugins : q # p => plugin'[q] = plugin[q]
      BY <1>9 DEF FetchRules, TypeOK
    <2>r. r \in Replicas
      BY <1>9, ConnOf DEF FetchRules
    <2>2. CASE cache[r] = NoEntry
      <3>1. \A q \in Plugins : /\ plugin'[q].rules = plugin[q].rules
                               /\ plugin'[q].uuid = plugin[q].uuid
        BY <1>9, <2>2 DEF FetchRules, TypeOK
      <3> QED BY <2>0, <3>1, InvKept
    <2>3. CASE cache[r] # NoEntry
      <3>1. plugin'[p].rules = cache[r].gen /\ plugin'[p].uuid = cache[r].uuid
        BY <1>9, <2>3 DEF FetchRules, TypeOK
      <3>2. \A s \in Replicas : Acting(s)' <=> Acting(s)
        BY <2>0 DEF Acting
      <3>3. /\ Acting(r) /\ cache[r].gen \in (1..seen[r]) \ bad /\ cache[r].uuid <= puts
            /\ seen[r] \in 0..spec
        BY <2>3, <2>r DEF Inv, OwnEntries, TypeOK
      <3>4. OnlyAcceptedRuns' /\ Deployment'
        BY <2>0, <2>1, <3>1, <3>3 DEF Inv, OnlyAcceptedRuns, Deployment
      <3>5. OwnEntries'
        BY <2>0, <3>2 DEF Inv, OwnEntries
      <3>6. \A s \in Replicas : Acting(s) => s = r
        BY <2>r, <3>3, ActingUnique
      <3>7. /\ cache[r].gen \in Nat /\ cache[r].gen <= spec
        BY <2>3, <2>r, <3>3, EntryOf DEF TypeOK
      <3>8. OwnTerm'
        BY <2>0, <2>1, <2>3, <3>1, <3>2, <3>3, <3>6, <3>7 DEF Inv, OwnTerm
      <3> QED BY <3>4, <3>5, <3>8 DEF Inv
    <2> QED BY <2>2, <2>3
  <1>10. ASSUME NEW p \in Plugins, RestartGateway(p)
         PROVE  Inv'
    <2>0. UNCHANGED <<deployed, leaderElect, spec, bad, up, lease, seen, todo, cache, puts, since>>
      BY <1>10 DEF RestartGateway, flags, processVars
    <2>1. \A q \in Plugins : q # p => plugin'[q] = plugin[q]
      BY <1>10 DEF RestartGateway, TypeOK
    <2>2. plugin'[p].rules = 0 /\ plugin'[p].uuid = 0
      BY <1>10 DEF RestartGateway, NewPlugin, TypeOK
    <2>3. \A s \in Replicas : Acting(s)' <=> Acting(s)
      BY <2>0 DEF Acting
    <2>4. OnlyAcceptedRuns' /\ Deployment' /\ OwnEntries'
      BY <2>0, <2>1, <2>2, <2>3
      DEF Inv, OnlyAcceptedRuns, Deployment, OwnEntries, TypeOK
    <2>5. OwnTerm'
      BY <2>0, <2>1, <2>2, <2>3 DEF Inv, OwnTerm, TypeOK
    <2> QED BY <2>4, <2>5 DEF Inv
  <1>11. ASSUME NEW isBad \in BOOLEAN, Edit(isBad)
         PROVE  Inv'
    <2>0. UNCHANGED <<deployed, leaderElect, up, lease, seen, todo, cache, puts, plugin, since>>
      BY <1>11 DEF Edit, flags, processVars
    <2>1. spec' = spec + 1 /\ bad \subseteq bad' /\ bad' \subseteq bad \cup {spec + 1}
      BY <1>11 DEF Edit
    <2>2. \A n \in 0..spec : n \in bad <=> n \in bad'
      BY <2>1 DEF TypeOK
    <2>3. \A s \in Replicas : Acting(s)' <=> Acting(s)
      BY <2>0 DEF Acting
    <2>4. OnlyAcceptedRuns' /\ Deployment' /\ OwnTerm'
      BY <2>0, <2>1, <2>2, <2>3
      DEF Inv, TypeOK, OnlyAcceptedRuns, Deployment, OwnTerm
    <2>5. OwnEntries'
      BY <2>0, <2>2, <2>3 DEF Inv, TypeOK, OwnEntries
    <2> QED BY <2>4, <2>5 DEF Inv
  <1>12. CASE UNCHANGED vars
    BY <1>12, InvKept DEF vars
  <1>13. ASSUME NEW p \in Plugins, PollLatest(p) \/ Disconnect(p)
         PROVE  Inv'
    <2>1. PICK r \in Replicas : TRUE
      OBVIOUS
    <2> QED BY <1>8, <1>13, <2>1
  <1> QED
    BY <1>1, <1>2, <1>3, <1>4, <1>5, <1>6, <1>7, <1>8, <1>9, <1>10, <1>11, <1>12, <1>13
    DEF Next

\* No Gateway runs a revision that the reconciler rejects, whatever replicas
\* lead, die and answer in turn and however far behind their informers are.
THEOREM AcceptedRuns == Spec => []OnlyAcceptedRuns
  <1>1. Init => Inv
    BY InvInit
  <1>2. Inv /\ [Next]_vars => Inv'
    BY InvNext
  <1>3. Inv => OnlyAcceptedRuns
    BY DEF Inv
  <1> QED BY <1>1, <1>2, <1>3, PTL DEF Spec

\* A step that takes a plugin back fetches from a leader of a later term that
\* is not there yet.
LEMMA StepBack ==
  ASSUME Inv, Next, NEW p \in Plugins,
         plugin'[p].rules < plugin[p].rules, plugin'[p] # NewPlugin
  PROVE  LET r == plugin[p].conn IN
         /\ Acting(r)
         /\ plugin[p].uuid <= since[r]
         /\ seen[r] < plugin[p].rules \/ r \in todo \/ seen[r] \in bad
  <1> USE DEF Inv, TypeOK
  <1>1. ASSUME NEW q \in Plugins, FetchRules(q)
        PROVE  q = p /\ cache[plugin[p].conn] # NoEntry /\ plugin[p].conn # NoConn
               /\ plugin'[p].rules = cache[plugin[p].conn].gen
    <2>1. CASE q # p \/ cache[plugin[q].conn] = NoEntry
      <3>1. plugin'[p].rules = plugin[p].rules
        BY <1>1, <2>1 DEF FetchRules
      <3> QED BY <3>1
    <2>2. CASE q = p /\ cache[plugin[q].conn] # NoEntry
      BY <1>1, <2>2 DEF FetchRules
    <2> QED BY <2>1, <2>2
  <1>2. ASSUME NEW q \in Plugins, NEW r \in Replicas,
               PollLatest(q) \/ Connect(q, r) \/ Disconnect(q)
        PROVE  FALSE
    <2>1. plugin'[p].rules = plugin[p].rules
      BY <1>2 DEF PollLatest, Connect, Disconnect
    <2> QED BY <2>1
  <1>3. ASSUME NEW q \in Plugins, RestartGateway(q)
        PROVE  FALSE
    BY <1>3 DEF RestartGateway
  <1>4. ASSUME NEW r \in Replicas, Exit(r)
        PROVE  FALSE
    <2>1. plugin'[p].rules = plugin[p].rules
      BY <1>4 DEF Exit
    <2> QED BY <2>1
  <1>5. ASSUME UNCHANGED plugin PROVE FALSE
    BY <1>5
  <1>6. ASSUME NEW q \in Plugins, PollLatest(q) \/ Disconnect(q)
        PROVE  FALSE
    <2>1. PICK r \in Replicas : TRUE
      BY OperatorAssumption
    <2> QED BY <1>2, <1>6, <2>1
  <1>7. \E q \in Plugins : FetchRules(q)
    BY <1>2, <1>3, <1>4, <1>5, <1>6
    DEF Next, Start, AcquireLease, ExpireLease, Deliver, Reconcile,
        ApplyPrerequisite, PrerequisiteFails, Edit
  <1>8. PICK r \in Replicas : r = plugin[p].conn
    BY <1>1, <1>7, ConnOf
  <1>9. /\ cache[r] # NoEntry /\ cache[r].gen < plugin[p].rules
        /\ cache[r].gen \in Nat /\ seen[r] \in Nat /\ since[r] \in Nat
    BY <1>1, <1>7, <1>8, EntryOf
  <1>10. Acting(r) /\ (r \in todo \/ cache[r].gen = seen[r] \/ seen[r] \in bad)
    BY <1>9 DEF OwnEntries
  <1>11. plugin[p].uuid <= since[r]
    BY <1>9, <1>10 DEF OwnTerm
  <1> QED BY <1>8, <1>9, <1>10, <1>11

\* A plugin goes back to older rules only with a leader that took over since
\* they were put and is not there yet: one replica acts at a time, its cache
\* never goes back within its term, and it dies with the process.
THEOREM NeverGoBack == Spec => RulesNeverGoBack
  <1>1. Init => Inv
    BY InvInit
  <1>2. Inv /\ [Next]_vars => Inv'
    BY InvNext
  <1>3. Inv /\ [Next]_vars =>
          [\A p \in Plugins :
             plugin'[p].rules < plugin[p].rules /\ plugin'[p] # NewPlugin =>
               LET r == plugin[p].conn IN
               /\ Acting(r)
               /\ plugin[p].uuid <= since[r]
               /\ seen[r] < plugin[p].rules \/ r \in todo \/ seen[r] \in bad]_vars
    BY StepBack
  <1> QED BY <1>1, <1>2, <1>3, PTL DEF Spec, RulesNeverGoBack
=============================================================================
