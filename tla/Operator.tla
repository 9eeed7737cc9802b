------------------------------ MODULE Operator ------------------------------
(***************************************************************************)
(* The operator as it is deployed (cmd/manager/main.go, manager.go, the    *)
(* Istio prerequisites and the life cycle of the cache server): replicas   *)
(* of one process under leader election, each with a rule set cache of its *)
(* own in memory, behind one Service that the plugins in the Gateways poll.*)
(*                                                                         *)
(* The cache server runs in every replica, the controllers and the         *)
(* prerequisites only in the leader, so that only a leader's cache is ever *)
(* filled, and a lost lease ends the process.  Every probe answers as soon *)
(* as the process is up, so the Service routes to standbys as well.        *)
(*                                                                         *)
(* One RuleSet stands for all: its revisions are numbered by generation,   *)
(* some of them the reconciler rejects.  A leader reads it from an informer*)
(* that may be behind.  What else happens inside one reconciliation is     *)
(* RuleSetController's, who may ask is CacheServer's, and what a cache     *)
(* keeps is RuleSetCache's.                                                *)
(*                                                                         *)
(* External: the lease (an exited holder keeps it until it expires; a      *)
(* holder that cannot renew gives up before it expires); the Service, which*)
(* picks a replica for a connection and not for a request; and the plugins,*)
(* which ask for the latest UUID, fetch when it is not the one they have,  *)
(* and otherwise keep the rules they run.  Polls come more often than the  *)
(* server's IdleTimeout, so a connection lasts until something breaks it.  *)
(***************************************************************************)
EXTENDS Naturals

CONSTANTS
    Replicas,           \* pods the Deployment may have
    Plugins,            \* WASM plugins polling for this RuleSet
    NoEntry,            \* the cache has nothing under the key
    NoConn,             \* the plugin's Gateway has no connection to the server
    Free, Stale,        \* nobody holds the lease; an exited process does
    MaxEdits,           \* bound on the users' edits of the RuleSet
    MaxExits,           \* bound on the exits of operator processes
    MaxFaults,          \* bound on failing calls for the prerequisites
    MaxBreaks           \* bound on restarts of Gateway pods and broken connections

\* What a rule set cache keeps, here: the UUID and the generation of the rules.
Entry == [uuid : Nat \ {0}, gen : Nat \ {0}]

ASSUME OperatorAssumption ==
    /\ Replicas # {} /\ NoConn \notin Replicas /\ NoEntry \notin Entry
    /\ Free \notin Replicas /\ Stale \notin Replicas /\ Free # Stale
    /\ {MaxEdits, MaxExits, MaxFaults, MaxBreaks} \subseteq Nat

VARIABLES
    deployed,      \* the replicas asked for
    leaderElect, operatorName,   \* the flags --leader-elect, --operator-name (is set)
    spec,          \* generation of the RuleSet
    bad,           \* generations the reconciler rejects
    up,            \* replicas whose process runs
    lease,         \* the holder of the lease
    seen,          \* replica -> the generation its informer shows
    todo,          \* replicas whose controllers have the RuleSet queued
    cache,         \* replica -> what its rule set cache returns
    puts,          \* revisions ever put, by any process: the source of UUIDs
    prereq,        \* replica -> what is left to do of the prerequisites
    istio,         \* Istio objects that exist
    plugin,        \* plugin -> where it is, the UUID and the rules it has, its connection
    since,         \* replica -> puts when it began to act (history, for a property)
    edits, exits, faults, breaks

flags == <<deployed, leaderElect, operatorName>>
bounds == <<edits, exits, faults, breaks>>
processVars == <<up, lease, seen, todo, cache, puts, prereq, since>>
vars == <<deployed, leaderElect, operatorName, spec, bad, up, lease, seen, todo,
          cache, puts, prereq, istio, plugin, since, edits, exits, faults,
          breaks>>

Prerequisites == {"ServiceEntry", "DestinationRule"}

\* A plugin in a pod that has just started.
NewPlugin == [pc |-> "idle", uuid |-> 0, rules |-> 0, conn |-> NoConn]

\* The chart's manifests were applied, no process has started yet.  More than
\* one replica needs leader election; without an operator name the
\* administrator provides the Istio objects.
Init ==
    /\ deployed \in (SUBSET Replicas) \ {{}}
    /\ leaderElect \in BOOLEAN
    /\ leaderElect \/ \E r \in Replicas : deployed = {r}
    /\ operatorName \in BOOLEAN
    /\ spec = 1
    /\ bad \in {{}, {1}}
    /\ up = {}
    /\ lease = Free
    /\ seen = [r \in Replicas |-> 0]
    /\ todo = {}
    /\ cache = [r \in Replicas |-> NoEntry]
    /\ puts = 0
    /\ prereq = [r \in Replicas |-> "none"]
    /\ istio = IF operatorName THEN {} ELSE Prerequisites
    /\ plugin = [p \in Plugins |-> NewPlugin]
    /\ since = [r \in Replicas |-> 0]
    /\ edits = 0 /\ exits = 0 /\ faults = 0 /\ breaks = 0

-----------------------------------------------------------------------------
(* Processes.                                                              *)

\* Mutant of Engage: the RuleSets that exist already are not queued.
EngageIdle(r) ==
    /\ \E g \in 1..spec : seen' = [seen EXCEPT ![r] = g]
    /\ prereq' = [prereq EXCEPT ![r] = IF operatorName THEN "ServiceEntry" ELSE "none"]
    /\ since' = [since EXCEPT ![r] = puts]
    /\ UNCHANGED todo

\* The manager runs what needs leader election: the controllers, which list
\* every RuleSet, in a state that may be an earlier one, and the prerequisites
\* if they were added.
Engage(r) ==
    /\ \E g \in 1..spec : seen' = [seen EXCEPT ![r] = g]
    /\ todo' = todo \cup {r}
    /\ prereq' = [prereq EXCEPT ![r] = IF operatorName THEN "ServiceEntry" ELSE "none"]
    /\ since' = [since EXCEPT ![r] = puts]

\* Mutant of Start: the controllers and the prerequisites do not ask for
\* leader election either.
StartEngaged(r) ==
    /\ r \in deployed \ up
    /\ up' = up \cup {r}
    /\ cache' = [cache EXCEPT ![r] = NoEntry]
    /\ Engage(r)
    /\ UNCHANGED <<flags, spec, bad, lease, puts, istio, plugin, bounds>>

\* main: a new, empty cache and its server, which needs no leader election;
\* without leader election the rest runs at once.
Start(r) ==
    /\ r \in deployed \ up
    /\ up' = up \cup {r}
    /\ cache' = [cache EXCEPT ![r] = NoEntry]
    /\ IF leaderElect THEN UNCHANGED <<seen, todo, prereq, since>> ELSE Engage(r)
    /\ UNCHANGED <<flags, spec, bad, lease, puts, istio, plugin, bounds>>

AcquireLease(r) ==
    /\ leaderElect
    /\ r \in up
    /\ lease = Free
    /\ lease' = r
    /\ Engage(r)
    /\ UNCHANGED <<flags, spec, bad, up, cache, puts, istio, plugin, bounds>>

\* The controllers of r run.
Acting(r) == r \in up /\ (leaderElect => lease = r)

Exited(r) ==
    /\ exits < MaxExits
    /\ exits' = exits + 1
    /\ seen' = [seen EXCEPT ![r] = 0]
    /\ todo' = todo \ {r}
    /\ prereq' = [prereq EXCEPT ![r] = "none"]
    /\ lease' = IF lease = r THEN Stale ELSE lease
    /\ since' = [since EXCEPT ![r] = 0]
    /\ UNCHANGED <<flags, spec, bad, puts, istio, edits, faults, breaks>>

\* Mutant of Exit: a process that loses the lease lives on as a standby.
StepDown(r) ==
    /\ r \in up
    /\ Exited(r)
    /\ UNCHANGED <<up, cache, plugin>>

\* The process dies, is told to stop, fails to listen or to renew the lease:
\* in every case mgr.Start returns, the server shuts down with its connections
\* and the memory goes.
Exit(r) ==
    /\ r \in up
    /\ Exited(r)
    /\ up' = up \ {r}
    /\ cache' = [cache EXCEPT ![r] = NoEntry]
    /\ plugin' = [p \in Plugins |->
                    IF plugin[p].conn = r THEN [plugin[p] EXCEPT !.conn = NoConn]
                    ELSE plugin[p]]

ExpireLease ==
    /\ lease = Stale
    /\ lease' = Free
    /\ UNCHANGED <<flags, spec, bad, up, seen, todo, cache, puts, prereq, istio,
                   plugin, since, bounds>>

-----------------------------------------------------------------------------
(* What a leader does.                                                     *)

\* The informer learns of edits, possibly of several at once, and the watch
\* queues the RuleSet.
Deliver(r) ==
    /\ Acting(r)
    /\ \E g \in (seen[r] + 1)..spec : seen' = [seen EXCEPT ![r] = g]
    /\ todo' = todo \cup {r}
    /\ UNCHANGED <<flags, spec, bad, up, lease, cache, puts, prereq, istio,
                   plugin, since, bounds>>

\* Mutant of Reconcile: a revision is put without being validated.
ReconcileUnchecked(r) ==
    /\ Acting(r) /\ r \in todo
    /\ todo' = todo \ {r}
    /\ puts' = puts + 1
    /\ cache' = [cache EXCEPT ![r] = [uuid |-> puts + 1, gen |-> seen[r]]]
    /\ UNCHANGED <<flags, spec, bad, up, lease, seen, prereq, istio, plugin,
                   since, bounds>>

\* Mutant of Reconcile: a rejected revision evicts the one before it.
ReconcileEvicting(r) ==
    /\ Acting(r) /\ r \in todo
    /\ todo' = todo \ {r}
    /\ IF seen[r] \in bad THEN /\ cache' = [cache EXCEPT ![r] = NoEntry]
                              /\ UNCHANGED puts
       ELSE /\ puts' = puts + 1
            /\ cache' = [cache EXCEPT ![r] = [uuid |-> puts + 1, gen |-> seen[r]]]
    /\ UNCHANGED <<flags, spec, bad, up, lease, seen, prereq, istio, plugin,
                   since, bounds>>

\* A whole reconciliation of the RuleSet that the informer shows: an acceptable
\* revision is put under a new UUID, a rejected one leaves the cache as it is.
Reconcile(r) ==
    /\ Acting(r) /\ r \in todo
    /\ todo' = todo \ {r}
    /\ IF seen[r] \in bad THEN UNCHANGED <<cache, puts>>
       ELSE /\ puts' = puts + 1
            /\ cache' = [cache EXCEPT ![r] = [uuid |-> puts + 1, gen |-> seen[r]]]
    /\ UNCHANGED <<flags, spec, bad, up, lease, seen, prereq, istio, plugin,
                   since, bounds>>

AfterPrerequisite(kind) == IF kind = "ServiceEntry" THEN "DestinationRule" ELSE "none"

\* One server-side apply of the prerequisites' apply.
ApplyPrerequisite(r) ==
    /\ Acting(r) /\ prereq[r] # "none"
    /\ istio' = istio \cup {prereq[r]}
    /\ prereq' = [prereq EXCEPT ![r] = AfterPrerequisite(@)]
    /\ UNCHANGED <<flags, spec, bad, up, lease, seen, todo, cache, puts, plugin,
                   since, bounds>>

\* The lookup of the Deployment or an apply fails: it is logged, the rest is
\* skipped, nothing is retried and the process goes on.
PrerequisiteFails(r) ==
    /\ Acting(r) /\ prereq[r] # "none"
    /\ faults < MaxFaults
    /\ faults' = faults + 1
    /\ prereq' = [prereq EXCEPT ![r] = "none"]
    /\ UNCHANGED <<flags, spec, bad, up, lease, seen, todo, cache, puts, istio,
                   plugin, since, edits, exits, breaks>>

-----------------------------------------------------------------------------
(* Plugins.  A request goes over the connection there is; a new one reaches*)
(* any replica that is up, once the mesh knows the cache server.           *)

Reachable == istio = Prerequisites

\* The Gateway connects to the Service's address and the Service picks a
\* replica.  A request that was on its way when the last connection broke may
\* have failed with it.
Connect(p, r) ==
    /\ Reachable /\ r \in up
    /\ plugin[p].conn = NoConn
    /\ \E pc \in {plugin[p].pc, "idle"} :
         plugin' = [plugin EXCEPT ![p].conn = r, ![p].pc = pc]
    /\ UNCHANGED <<flags, spec, bad, processVars, istio, bounds>>

\* A connection breaks by itself.
Disconnect(p) ==
    /\ plugin[p].conn # NoConn
    /\ breaks < MaxBreaks
    /\ breaks' = breaks + 1
    /\ plugin' = [plugin EXCEPT ![p].conn = NoConn]
    /\ UNCHANGED <<flags, spec, bad, processVars, istio, edits, exits, faults>>

\* GET /rules/{key}/latest
PollLatest(p) ==
    LET r == plugin[p].conn IN
    /\ r # NoConn
    /\ plugin[p].pc = "idle"
    /\ cache[r] # NoEntry
    /\ cache[r].uuid # plugin[p].uuid
    /\ plugin' = [plugin EXCEPT ![p].pc = "fetch"]
    /\ UNCHANGED <<flags, spec, bad, processVars, istio, bounds>>

\* GET /rules/{key}, of another replica if the connection is another one by
\* now: an unknown key leaves the plugin with what it has.
FetchRules(p) ==
    LET r == plugin[p].conn IN
    /\ r # NoConn
    /\ plugin[p].pc = "fetch"
    /\ plugin' = [plugin EXCEPT ![p] =
                    IF cache[r] = NoEntry THEN [@ EXCEPT !.pc = "idle"]
                    ELSE [pc |-> "idle", uuid |-> cache[r].uuid,
                          rules |-> cache[r].gen, conn |-> r]]
    /\ UNCHANGED <<flags, spec, bad, processVars, istio, bounds>>

\* A Gateway pod is replaced.
RestartGateway(p) ==
    /\ breaks < MaxBreaks
    /\ breaks' = breaks + 1
    /\ plugin' = [plugin EXCEPT ![p] = NewPlugin]
    /\ UNCHANGED <<flags, spec, bad, processVars, istio, edits, exits, faults>>

\* A user edits the RuleSet, for better or worse.
Edit(isBad) ==
    /\ edits < MaxEdits
    /\ edits' = edits + 1
    /\ spec' = spec + 1
    /\ bad' = IF isBad THEN bad \cup {spec + 1} ELSE bad
    /\ UNCHANGED <<flags, processVars, istio, plugin, exits, faults, breaks>>

-----------------------------------------------------------------------------
Next ==
    \/ \E r \in Replicas : Start(r) \/ AcquireLease(r) \/ Exit(r)
    \/ ExpireLease
    \/ \E r \in Replicas : \/ Deliver(r) \/ Reconcile(r)
                           \/ ApplyPrerequisite(r) \/ PrerequisiteFails(r)
    \/ \E p \in Plugins, r \in Replicas : Connect(p, r)
    \/ \E p \in Plugins : \/ PollLatest(p) \/ FetchRules(p)
                          \/ Disconnect(p) \/ RestartGateway(p)
    \/ \E isBad \in BOOLEAN : Edit(isBad)

Spec == Init /\ [][Next]_vars

\* The kubelet restarts processes, a lease expires and is taken again, a watch
\* delivers, what a leader has to do it does, a Gateway without a connection
\* makes one, and a plugin polls over the one it has.  Which replica a
\* connection reaches, and whether it ever ends, is left open.
FairSpec ==
    /\ Spec
    /\ \A r \in Replicas :
         /\ WF_vars(Start(r))
         /\ WF_vars(Deliver(r))
         /\ WF_vars(Reconcile(r))
         /\ WF_vars(ApplyPrerequisite(r) \/ PrerequisiteFails(r))
    /\ WF_vars(\E r \in Replicas : AcquireLease(r))
    /\ WF_vars(ExpireLease)
    /\ \A p \in Plugins :
         /\ WF_vars(\E r \in Replicas : Connect(p, r))
         /\ WF_vars(PollLatest(p))
         /\ WF_vars(FetchRules(p))

-----------------------------------------------------------------------------
(* Properties.                                                             *)

\* The types of the variables: a live process holds the lease and a connection,
\* only what acts has work queued and prerequisites to provide, and it has
\* listed the RuleSet.
TypeOK ==
    /\ deployed \subseteq Replicas
    /\ leaderElect \in BOOLEAN /\ operatorName \in BOOLEAN
    /\ spec \in Nat \ {0} /\ bad \subseteq 1..spec
    /\ up \subseteq deployed
    /\ lease \in up \cup {Free, Stale}
    /\ seen \in [Replicas -> 0..spec]
    /\ \A r \in Replicas : Acting(r) => seen[r] # 0
    /\ todo \subseteq {r \in up : Acting(r)}
    /\ cache \in [Replicas -> Entry \cup {NoEntry}]
    /\ puts \in Nat
    /\ prereq \in [Replicas -> Prerequisites \cup {"none"}]
    /\ \A r \in Replicas : prereq[r] # "none" => Acting(r)
    /\ istio \subseteq Prerequisites
    /\ plugin \in [Plugins -> [pc : {"idle", "fetch"}, uuid : Nat, rules : Nat,
                               conn : up \cup {NoConn}]]
    /\ since \in [Replicas -> 0..puts]
    /\ edits \in Nat /\ exits \in Nat /\ faults \in Nat /\ breaks \in Nat

\* No Gateway runs a revision that the reconciler rejects, whoever leads and
\* whatever its informer showed.
OnlyAcceptedRuns == \A p \in Plugins : plugin[p].rules \notin bad

\* The one way in which a plugin that is not restarted goes back to older rules:
\* it is connected to a process that leads, that began to lead after those rules were put, and that
\* is not there yet: its informer is behind the plugin, or what it shows is
\* queued or is rejected.  As long as the leader stays, nothing does; nor does
\* a replica that led before, since losing the lease ends the process and its
\* cache with it (main).
RulesNeverGoBack ==
    [][\A p \in Plugins :
         plugin'[p].rules < plugin[p].rules /\ plugin'[p] # NewPlugin =>
           LET r == plugin[p].conn IN
           /\ Acting(r)
           /\ plugin[p].uuid <= since[r]
           /\ seen[r] < plugin[p].rules \/ r \in todo \/ seen[r] \in bad]_vars

\* Connected to a standby while another replica leads.
Pinned(p) == plugin[p].conn \in up /\ lease \in Replicas \ {plugin[p].conn}

\* When users and faults come to rest and the revision is acceptable, every
\* Gateway runs it whose connection is not held by a standby, although informers
\* were behind and leaders died before, between and after they provided the
\* prerequisites; only a failing call for those can keep the rules from the
\* Gateways.  With one replica no Gateway is pinned.
InForceConverges ==
    <>[](spec \notin bad /\ (faults = 0 \/ Reachable) =>
           \A p \in Plugins : plugin[p].rules = spec \/ Pinned(p))

Protected ==
    puts > 0 /\ Reachable => \A p \in Plugins : plugin[p].rules # 0 \/ Pinned(p)

\* As long as the process lives, a bad revision leaves every Gateway, a new
\* one too, with the last good rules.
BadUpdateTolerated == <>[](exits = 0 => Protected)
=============================================================================
