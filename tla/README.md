# Verification of the Coraza Kubernetes operator

TLA+ modules beside the operator's code: what its parts keep, what they do in
which order, what goes wrong around them, the properties that make them correct,
TLC runs on small instances and TLAPS proofs for all of them.

`PROJECT.json` has the machine-readable side: components, runs, a map of every
definition to its source lines, findings, hazards, theorems.

## 1. The system

The operator turns `RuleSet` objects (lists of `RuleSource` and `RuleData`) into
compiled-and-checked rule text, keeps it in an in-memory cache, and serves it over
HTTP to WASM plugins that it deploys into Gateways for each `Engine`.

```
 users -> API server -> informers -> RuleSet controller -> RuleSetCache -> cache server
                            |                                                 ^   |
                            +-----> Engine controller -> NetworkPolicy,       |   v
                                       ServiceAccount, token, WasmPlugin -> plugins (poll)
                                                                  TokenReview API <- server
```

### Inventory

**Rule set cache and its collector** (`internal/rulesets/cache/cache.go`, `rungc` in
`server.go`). *State*: instances with their revisions oldest first, the mark of the
latest one, incremental byte and entry counts. *Operations*: `Put`, `Get`, `Prune` by
age, `PruneBySize`, and a ticker loop that calls the last two. *Interaction*: `Put`
by the RuleSet controller, `Get` by request goroutines, pruning by the loop; each call
holds a lock, the loop between its calls does not. *Hard*: Puts between the loop's calls;
incremental counting over three methods; iteration in map order. *Correct when*: the
latest revision is always found, counts are exact, a cache over its limit is brought
under it and no further than necessary.

**Cache server and token authenticator** (`server.go`, `auth.go`). *State*: a `sync.Map`
of authentication results with expiry times and a separately counted size. *Operations*:
`GET /rules/{ns/name}` and `.../latest`; lookup, drop of an expired result, TokenReview,
store. *Hard*: the lock covers neither the review nor the lookup, so requests for
one key race; the cache at its limit; revocation. *Correct when*: the cache is
bounded, nobody is served outside the audience and the namespace of a reviewed token, nobody
entitled is refused, and a revoked token stops working.

**RuleSet controller** (`internal/controller/ruleset_controller*.go`, `utils.go`).
*State*: none of its own; it reads informers, writes the cache and the object's status.
*Operations*: one reconciliation: initialise the status, load data and sources one by one,
validate, check for unsupported rules, `Put`, patch the status. *Hard*: stale and
torn reads, predicates that filter events, merge patches against a stale copy, failures and
crashes between `Put` and patch, the cache lost in a restart. *Correct when*: only
accepted rules are served, a good revision survives a bad one, and cache and status
converge to what the RuleSet as it stands deserves.

**Engine controller** (`internal/controller/engine_controller*.go`). *State*: the token
store in memory; everything else lives in the API server. *Operations*: one
reconciliation: clean up, set the finalizer, initialise the status, check the RuleSet,
apply the NetworkPolicy, ensure ServiceAccount and token, apply the WasmPlugin, patch the
status, come back for the token's renewal. *Hard*: a policy in another namespace that no
owner reference reaches; lists that lag behind; five calls of which each may fail; one
delayed wake-up on which the token's renewal depends; deletion and re-creation under the
same name. *Correct when*: what is asked for is provisioned in the end, in the documented
order, with a token that works, and nothing outlives its Engine.

**Operator process and Istio prerequisites** (`cmd/manager/main.go`,
`internal/controller/manager.go`, `engine_controller_istio_prerequisites.go`, `Start` and
`NeedLeaderElection` of `server.go`). *State*: per replica a cache in memory; the lease; two
Istio objects. *Operations*: start, lead, exit; two server-side applies by the leader.
*Interaction*: all replicas serve, one reconciles; plugins poll through one Service. *Hard*:
standbys answer from empty caches, and a Gateway keeps the connection it has; failover loses the cache, and
the new leader's informer may be behind what the old one served; poll and fetch reach different
replicas; a failed apply is logged and never retried. *Correct when*: no Gateway runs a
rejected revision, none goes back to an older one while the leader stays, and in the end every Gateway that
reaches the leader runs the current one.

**CRS manifest generator and unsupported-rule check** (`tools/corerulesetgen`,
`cmd/kubectl-coraza`, `internal/rulesets/unsupported.go`). *State*: none beyond one run.
*Operations*: split a file into directives, find chains, drop unwanted rules with their chains,
report, write; later the operator scans the result for unsupported ids. *Hard*: continuation lines,
comments within chains, chains cut off, two expressions for an id of which only one knows quotes. *Correct when*: what Coraza
reads in the output are just the rules that should be left, and the operator accepts them.

**Issue and pull request triage** (`tools/github_project_manager`, run by the repository's
workflows). *State*: on GitHub: labels, milestone, open or closed, place on a board. *Operations*:
`close-declined`, `update-labels`, `triage-pr`, each one early read and then several calls.
*Hard*: jobs run concurrently, people act in between, calls fail or their answers are lost.
*Correct when*: labels, milestone and board tell one story once the last event is worked off.

**memfs**, **metrics**, **API types**: passive helpers, types and collectors.

## 2. Modules

| module | models | built on |
|---|---|---|
| `RulesStore` | what the cache promises its readers: per instance the latest published revision | |
| `RuleSetCache` | the cache and every step of the collector's loop | implements `RulesStore` |
| `RuleSetCacheProofs` | its theorems | `RuleSetCache` |
| `CacheServer` | HTTP handlers and authenticator, any number of requests in flight | uses `RulesStore` for the cache |
| `CacheServerProofs` | its theorems | `CacheServer` |
| `RuleSetController` | the RuleSet reconciler, its watches and queue, users, restarts | the cache as `RulesStore` promises it |
| `RuleSetControllerProofs` | its theorems | `RuleSetController` |
| `EngineController` | the Engine reconciler, its watches and queue, the API server's garbage collector, users, restarts, time | |
| `EngineControllerProofs` | its theorems | `EngineController` |
| `Operator` | the deployed whole: replicas, lease, lagging informers, prerequisites, caches, Service, polling plugins | abstracts one reconciliation of `RuleSetController` and a cache as `RulesStore` promises it |
| `OperatorProofs` | its theorems | `Operator` |
| `RuleFilter` | the generator's filter and the operator's check for unsupported rules, against how Coraza reads rules | |
| `RuleFilterProofs` | its theorems | `RuleFilter` |
| `ProjectManager` | the triage tool's commands as the workflows run them | |
| `ProjectManagerProofs` | its theorems | `ProjectManager` |
| `MC...` | constants for TLC | |

Definitions called mutants (a comment before each says which bug they stand for) are
not part of the specifications: they are altered versions of a definition under which
a property must fail.

### How state and actions correspond to the code

*RuleSetCache*. `entries` is the union of the per-instance slices; `uuid` grows with each
`Put`, so the order within a slice is the order of `uuid`. `latest` is
`RuleSetEntries.Latest`. The loop's program counter `gcPC` separates what `rungc` does
under separate locks: `Prune`, `TotalSize` (`GCMeasure`, with the age metric), `PruneBySize`,
and the second `TotalSize` (`GCRecheck`, with the size metric and the alarm).
`PruneBySize(order)` takes the map's iteration order as a parameter, any order. An entry's
size is that of its rules and data files, a parameter of the payload.

*CacheServer*. One handler is one goroutine. The steps are the places where another
goroutine can come in between: `LookUp` (`cache.Load` and the expiry check), `DropExpired`
(under `cacheMu`), the TokenReview call (`ReviewFails`, `ReviewRejects`, `ReviewAccepts`),
`StoreResult` (under `cacheMu`, with `evictExpiredLocked`), `Respond` (namespace check and
`Get`). Paths and keys are sequences of segments, so that cutting off `/latest` is modelled
by what it does. Expiry times are kept as the time left, which leaves the clock unbounded.

*RuleSetController*. `object` is the API server, `log` and `view` the informer's backlog and
its copy, `job` the local variables of the running `Reconcile`. Each cached read, the `Put` and
each status patch is a step. The functions that map an event on a RuleSource or a RuleData to RuleSets
(`findRuleSetsBy`), and a RuleSet to Engines (`findEnginesForRuleSet` in `EngineController`), give nothing when their `List`
fails. That path is left out: the list is answered by the informer's index in memory, which fails only for an
index that is not registered, and `SetupWithManager` registers it before the watches. A merge patch (`PatchTo`) sends the difference between the new
status and the status *as read*; an empty one changes nothing. Whether texts compile and whether
they hold unsupported rules are parameters (`Compiles`, `HasUnsupported`).

*EngineController*. One Engine: the reconciler's labels, owner references, plugin name and
token keys carry the Engine's name, so two Engines never meet. `engine`, `policies`,
`accounts`, `plugin` are the API server; `...View` the informers; `tokenStore` the
`sync.Map`; `job.pc` names the next API call. `wake` is the Engine's place in
the work queue: due (0), due in so many ticks (the token's renewal), or not queued. The model
merges a delayed and an immediate entry into the earlier one, as controller-runtime's
priority queue does. `event` stands for the events that no view shows: those on the plugin, which the
reconciler does not read back from an informer, and the deletion of a policy that the list had not shown yet. A tick is a good part of a token's lifetime and passes only when all work of the scale of
seconds is done (`Settled`). `CollectGarbage` follows owner references by UID.

*Operator*. `cache[r]` is what `Get` of replica `r` returns, `Acting(r)` says that its
leader-election runnables (controllers, prerequisites) run. `Start` is `main` up to `mgr.Start`; `Exit`
stands for every way `mgr.Start` returns or the process dies, a lost lease included, because `main` then
ends the process; that is what keeps a former leader from answering with old rules. `seen[r]` is the generation that the
informer of `r` shows: any up to the current one when it starts (`Engage`), a later one with each `Deliver`, which queues the
RuleSet. `Reconcile` is one whole
reconciliation of what the informer shows (its steps are `RuleSetController`'s). `prereq[r]` is the next object `apply` will send;
`PrerequisiteFails` is `Start` logging the error and returning nil. `plugin[p].conn` is the replica at the other end of the
Gateway's connection. A new connection (`Connect`) reaches any replica that is up, because readiness is `healthz.Ping`; after that
polls and fetches go over it, because the Service balances connections and the server keeps them for 60 seconds of idleness
(`IdleTimeout`) while plugins poll every 15. It ends with the replica's process (`Exit`), the Gateway's (`RestartGateway`) or by
itself (`Disconnect`). `since[r]`, history, is the number of revisions put when `r` began to act.

*RuleFilter*. A line is a record of what the code's regular expressions and Coraza's parser find in it;
the loops of `splitIntoRules` and `chainSecRuleGroups` are recursive functions of the number of lines and blocks taken
(`SplitLines`, `GroupBlocks`) with one turn as an operator (`TakeLine`, `TakeBlock`). `Process` is the whole of
`processFileContent`. The reference (`Read`, `ChainOf`, `Wanted`) is stated on its own, from how Coraza joins lines and links
chains; a rule is `Unwanted` for any id of it, quoted or not, that was asked to go. `WellFormed` says what `FilterExact` and
`OutputSupported` take for granted of a file: directives are complete and
have one id at most, a directive such as `SecRuleEngine`, which the code takes for a rule because of its
prefix, is a line without an id or `@pmFromFile`, and a chain is made of SecRules and ends. Beyond that, `FilterExact` wants directives
unindented (`Unindented`), ids without quotes (`Unquoted`) and chains the code can see (`ChainsInline`); `OutputSupported` wants only
the unsupported rules to be SecRules of the first column (`UnsupportedAtMargin`), as they are in CoreRuleSet, whose indented rules are the chained ones.

*ProjectManager*. `job[j].pc` names the next API call of a job, its other fields what it read and computed.
Every changing call (`Call`) may take effect with its answer lost. `Human` actions are what people do; those that
the workflows listen to start a job: of a pull request, opening, reopening and pushing do, changes of its labels and its milestone, which
people can make between any two calls of a job, do not. `period` is history: what has happened since the last job started. It notes whether a
person has taken off a size (`unsized`) or the milestone (`unplanned`) since then, and whether one has ever put a size next to another or on
during a job (`doubled`): then a job that read the item before cannot do better than it does.

### External parts

The API server, informers, work queue, garbage collector, TokenReview and clock are not in this
repository; they are modelled from how the code uses them and marked so in the map:
informers deliver every version of an object in order but late, an item is queued at most once
and worked on by one worker, a failed item comes back. A holder of the lease that cannot renew it ends before it
expires; an exited holder keeps it until then. A plugin asks for the latest UUID, fetches when it is not its own and
otherwise keeps its rules. A Service picks a replica for a connection, not for a request. Coraza's parser and GitHub likewise.

## 3. Runs

| run | shows |
|---|---|
| `cache` | `LatestRetained`, `AccountingExact`, `RevisionsConserved`, `ShrinkExact`, the refinement `ImplementsStore`, and the liveness `StaleCollected`, `OversizeResolved` |
| `server` | `AuthCacheBounded`, `ServedIsScoped`, `EntitledNotForbidden`, and the liveness `RevocationTakesEffect` |
| `ruleset` | reads that lag or not, a failing call or a restart: `NothingTornAtRest`, `ReadyIsCached`, `LastKnownGoodKept`, `ServedConverges`, `StatusConvergesFresh` |
| `engine` | stale reads, a failing call at any step, a restart, two RuleSets and Gateways, time: `FinalizerHeld`, `TokenScoped`, `ProvisionedAtRest`, `PolicyBeforePlugin` |
| `engine_converges` | deletion and re-creation, others deleting the operator's objects: `NoOrphans`, `Provisioned` |
| `operator` | one or two replicas, with and without leader election, informers that lag, exits, failing prerequisites, a new Gateway or a broken connection: `OnlyAcceptedRuns`, `RulesNeverGoBack`, and the liveness `InForceConverges`, `BadUpdateTolerated` |
| `triage` | two jobs, people who change anything between any two calls, a failing call: `IssueSettles`, `PullRequestSettles`, `NeverUntriaged` |
| `crs` | all files of four fragments under all options: `EveryDropReported`, `FilterExact`, `OutputSupported` |

Each of these runs but `engine_converges` also has the module's `TypeOK`. Four runs
show disagreements between the code and what a comment or a document says of it:

| run | disagreement |
|---|---|
| `ruleset_stale_status` | an empty merge patch against a stale copy leaves the status wrong until something else causes a reconciliation, at the latest the informer's resync hours later; in the trace a RuleSet whose RuleData is missing stays Ready (`status-conditions.md` on `RuleDataNotFound`) |
| `engine_policies` | a stale list leads to a second policy, which is never updated: after a change of target the old Gateway stays admitted (`security-model.md`) |
| `engine_token` | a re-created Engine gets the stored token of its predecessor's deleted ServiceAccount until its renewal (comment in `engine_controller_token.go`) |
| `crs_layout` | a chain in CoreRuleSet's own layout (`chain` on a line of its own, the chained rule indented) is not recognised: a dropped first rule leaves its chained rule standing alone (comment and warning in `rules.go`) |

Smaller observations from modelling, which have no run of their own:

- `PruneBySize` walks a map, so size eviction is oldest-first within an instance only (`ShrinkExact`), not over
  all entries as `architecture.md` says.
- Two concurrent misses for one token make `auth.go:161` count one entry twice; the surplus never comes down. The limit
  still holds (`AuthCacheBounded`), only the use of the cache suffers.
- `handleRules` cuts `/latest` off every path, so a RuleSet named `latest` cannot be fetched at `/rules/ns/latest`,
  only its UUID at `/rules/ns/latest/latest`; `EntitledNotForbidden` therefore leaves that one path out (`Endpoints`).
- The last good rules live in memory: after a restart with a rejected revision a new Gateway gets none, which
  `rule-processing.md` does not say. `BadUpdateTolerated` is therefore stated for a process that lives on.
- After a failover the new leader may serve an older revision than its predecessor did, until its informer has caught up; `RulesNeverGoBack`
  says that this is the only way back.
- With two replicas a Gateway whose connection reached the standby is answered 404 as long as the connection lasts: the cache server runs in
  every replica, only the leader's cache is filled, every probe passes at once, and keep-alive outlasts the poll interval.
  `creating-firewall-rules.md` ("Engines polling the cache pick up the new rules at their configured poll interval") does not say so;
  `InForceConverges` makes this exception (`Pinned`).
- An unsupported rule whose id is in quotes (`id:'922110'`, a rule id by the comment in `unsupported.go`) is not seen by the generator's
  `id:(\d+)` and stays in what it writes, where the operator's expression, which takes quotes, finds it and the RuleSet is rejected.
  `OutputSupported` says that nothing else unsupported stays; without the exception TLC finds a file of one line.
- A failed apply of the Istio prerequisites is not retried before another process leads; `InForceConverges` makes
  that exception.
- Overlapping triage jobs can leave two size labels on a pull request, and an issue inconsistent until the next
  undisturbed job. So can a person who adds a size between a job's read and its `AddLabels`; one who takes the size off there leaves none
  until the next push. `PullRequestSettles` makes these exceptions and no others.
- The triage tool reads one page of 100 milestones, of 100 projects and of 100 changed files; with more, the lowest milestone or an area may
  not be among them. The model has them all on the page.

### Bounds, and why they are enough

- `cache`: two instances, payloads of 1 and 3 bytes, a limit of 4, four revisions, three
  ticks: several revisions per instance, a latest revision alone over the limit, ties in age,
  Puts between any two steps of a collection.
- `server`: two requests in flight over an authentication cache of one entry, two tokens (the
  right one, one from another namespace), both endpoints, an unknown key, no key. Two requests
  suffice for every race on one key; a limit of one puts the cache at its limit at once.
  A token of no ServiceAccount takes the path of a rejected review. The proofs cover any number.
- `ruleset`: one RuleSet with one RuleSource and possibly one RuleData, three contents, two edits, one
  disruption (a failing call or a restart). `lag` is chosen at the start: how many versions, up to `MaxLag` = 1, the
  informer may be behind when a reconciliation starts. One RuleSet suffices: reconciliations of two share
  nothing but contents, which users change anyway. With a lag the rules of an older generation can for
  a moment replace newer ones and an empty patch can leave the status; this is why the generation parts of
  `ReadyIsCached` and `LastKnownGoodKept`, and `StatusConvergesFresh`, are about `lag = 0`.
- `engine`: two edits (create, then one other), one fault, one restart. `engine_converges`: three edits
  and two incarnations (create, delete, create), one drift. `MaxLag = 1` bounds how
  far the lists and the Engine's copy are behind when used, and with it the number of
  duplicate policies.
- `operator`: up to two replicas (a leader and a standby show every failover), one Gateway (plugins do not
  meet), two edits, two exits, one failed apply, one Gateway restart or broken connection: enough for a bad revision after a good one,
  a failover in between, a new leader whose informer is one or two generations behind, a poll and a fetch at different replicas, and a new
  plugin after it.
- `triage`: two jobs (two suffice for every race on one item), one area, sizes either side of a threshold, three
  milestones whose number, listing and version orders differ, two edits, one failing call. The jobs are
  symmetric and only safety is checked.
- `crs`: two ids of which one is unsupported, fourteen fragments (rules with and without
  continuation, chains of both layouts, an indented rule, quoted ids, cut-off continuations, comments, blank lines, other directives), files of up
  to four: a chain with a comment, a broken member and a rule behind it.
- `CHECK_DEADLOCK FALSE` where the system may stop: the collector ends with the context;
  when users' edits are used up and there is no object left, a controller has nothing to do; the
  generator ends; a triaged item needs no job; plugins poll without effect once they have the current rules.
- No symmetry is used where liveness is checked.

### Fairness, and why the code justifies it

- `RuleSetCache`: weak fairness of the collector's steps; it is a goroutine driven by a ticker,
  and no call in it blocks for good. Its end (`GCStop`) is allowed, and liveness is stated up to it.
- `CacheServer`: weak fairness of each handler (the review call ends at the latest with the
  request's context) and of the clock. Clients, revocations and publications owe nothing.
- Controllers: weak fairness of the worker, of each watch's delivery, of the delay
  of failed items and of the garbage collector. Users, faults, restarts and, for the Engine, time, owe
  nothing; faults and restarts are bounded, so that "in the end" means after the last one.
- `Operator`: weak fairness of starting (the kubelet), taking an expired lease, the watch's delivery, reconciling and applying, of
  connecting to some replica, and of a plugin's poll and fetch over the connection it has. Nothing is assumed about which replica a
  connection reaches or that it ever ends, so `InForceConverges` and `BadUpdateTolerated` leave out a Gateway that is connected to a standby
  while another replica leads (`Pinned`); without that exception TLC finds such a Gateway that never gets the rules. With one replica, the chart's default, there is none. Exits,
  faults, edits, broken connections and Gateway restarts owe nothing and are bounded.
- `ProjectManager`, `RuleFilter`: none, only safety is stated.

## 4. Proofs

All theorems are about `Spec`, for every value of the constants that satisfies the named
assumptions.

**`RuleSetCacheProofs`**: `TypeCorrect`, `LatestIsRetained`, `AccountingIsExact`,
`RevisionsAreConserved`, `CacheImplementsStore`, `ShrinkIsExact`. The inductive invariant `IInv` joins
the type invariant, finiteness of `entries` (cardinalities and sizes are otherwise
meaningless), `UUIDsFresh` (a new revision is distinct from all stored ones and newer, so that counts go up by one and the
mark identifies one entry), `MarksSound` (an instance without a mark has no entries) and the three properties
themselves; `PendingResult` says that the loop's local result is zero except between a
prune call and its metric, without which `RevisionsConserved` would not survive the next prune. The size of a
set of entries is defined as the cardinality of a set of bytes, so that the lemmas
`SizeOfAdd` and `SizeOfRemove` follow from those on cardinality rather than from an induction.
`Remove` is proved once (`RemoveInv`) for any set of prunable entries and used for both kinds
of pruning, so the iteration order plays no role. The refinement rests on two lemmas: a step that removes
only prunable entries leaves what `Get` returns alone (`KeptIsServed`), a `Put` changes it at one
instance (`PutPublishes`). For `ShrinkExact` the walk of `PruneBySize` is a linear order of the stored revisions (`WalkIsLinear`) and what it
takes a beginning of it; its last revision is the one without which the cache would not fit. That there is a first or last one of a set
of revisions comes from the least element of a set of numbers (`LeastNumber`, from the well-foundedness of `<`) and not
from an induction over the walk. Assumptions: payload sizes are naturals up to `MaxPayloadSize`, bounds are
naturals.

**`CacheServerProofs`**: `TypeCorrect`, `AccessIsScoped`, `AuthCacheIsBounded`, `EntitledIsAdmitted`, for any number of
handlers, tokens, paths and any limit. `ServedIsScoped` needs to be strengthened to results not yet
used: cached results (only keys whose token the API bound to that audience are ever cached)
and requests in flight past their review. `AuthCacheBounded` is inductive with finiteness: the count is at
least the map's cardinality, which is why double counting is harmless for the bound. `EntitledNotForbidden` follows from what the steps of a request leave of its
path: key, audience and lookup are those of the RuleSet at both endpoints. Assumptions
(`ServerAssumption`): a RuleSet is a pair of a namespace and a name, the namespace is none that stands for other users, finitely many tokens, some path, a positive `TTL`, a natural limit.

**`OperatorProofs`**: `TypeCorrect`, `AcceptedRuns`, `NeverGoBack`, for any number of replicas, plugins, edits, exits, faults and broken
connections, and informers that are any number of generations behind. The inductive invariant `Inv` is `TypeOK`, `OnlyAcceptedRuns` and three parts. `Deployment`: without
leader election there is one replica, so that never two act (`ActingUnique`). `OwnEntries`: only an acting replica has an entry, of a generation that its informer has shown and
that is accepted, put in its own term, and current with the informer unless the RuleSet is queued or what the informer shows is rejected. `OwnTerm`: what a plugin got in the present
term is not newer than the entry it came from. `NeverGoBack` follows: a fetch of older rules (`StepBack`) comes from an acting replica whose term began after the plugin's
rules were put, and which is not there yet. That older rules can come from a new leader is how the code is, since the reconciler reads an informer; that they cannot come from
a standby, a former leader or the same leader is what the proof shows. Assumptions (`OperatorAssumption`): there is a replica, the marks of a free and a
stale lease and of a missing connection are no replicas, bounds are naturals.

**`RuleSetControllerProofs`**: `TypeCorrect`, `TornReadsAreReplaced`, `ReadyMeansCached`, `LastKnownGood`, for any RuleSets,
references, contents and any lag. `NothingTornAtRest` needs `TornInv`: versions of one generation in the informer's backlog have one spec (`VersionsAgree`);
what a reconciliation has read so far is what the informers show now, or another one is coming (`JobTorn`); and what the last one left in the cache
is, if acceptable, just what they show, or another one is coming (`RestTorn`). "Coming" is the queue, or a version in the backlog that passes the predicates: every
edit that falls between two reads has to find its way there, through `Triggers` or `findRuleSetsBy`. `ReadyIsCached` and
`LastKnownGoodKept` need the order of generations, `OrderInv`: an object's history in the informer never runs
ahead of the object and ends with it (`HistoryOrdered`); the copy a reconciliation works with is no newer than the object and,
with fresh reads, no older than what is served or observed (`JobOrdered`); and a RuleSet that says Ready while nothing is
cached said so before the process started and is still owed a reconciliation (`ReadyOwed`). Lemmas state once what a stored version
(`StoreEffect`, `HistoryStep`), a patch (`PatchEffect`) and the end of a reconciliation (`EndStep`) do. Assumptions
(`RuleSetControllerAssumption`): specs are sequences of references, the marks of an absent entry and an idle worker are neither entries nor
RuleSets, bounds are naturals.

**`EngineControllerProofs`**: `TypeCorrect`, `TokenIsScoped`, `FinalizerIsHeld`, `PolicyComesFirst`, `RestsProvisioned`, for any specs,
RuleSets, Gateways, lags, edits, failures, restarts, incarnations and any token lifetime longer than the renewal time. Three invariants build on each other:

- `TInv`, the types, with what each step of a reconciliation has in hand (a token from `plugin` on, a stored token of the RuleSet it
  is stored under). `TokenScoped` is part of it.
- `HInv`, the history of the Engine in the informer: versions are ordered (`Precedes`) and the last one is the object as it stands
  (`HistoryOrdered`); an Engine with the finalizer that the informer knows of is still there, or went in a reconciliation of its deletion
  (`GoneIsSeen`); two incarnations with the finalizer do not meet (`OneHeld`); a cleanup works on the one that carries it (`ReleaseInv`).
  `FinalizerHeld` is not inductive without it: the reconciler looks at a copy, and only the history says that a copy that carries the
  finalizer and is not being deleted belongs to an Engine that still has it.
- `PInv`, what provisioning achieves: generations identify specs (`GenInv`); a reconciliation of an older spec is not the last
  (`StaleInv`); as long as the first Engine of a name lives, so do the accounts of all its tokens (`FirstInv`); and when no
  reconciliation is due, an Engine that can be provisioned is, with a wake-up that comes before its token is too old (`RestInv`). `PolicyInv`
  says that from the account on the policy is there, or somebody has interfered.

`ProvisionedAtRest` is `RestInv` where nothing is on its way: a missed event, a lost wake-up or a late renewal would each break
one of these parts. Assumptions: `TokenAssumption` (the renewal comes before the end of the lifetime, `Never` is not a number of ticks),
`EngineAssumption` (finitely many specs, bounds are naturals), `PluginAssumption` (the mark of an absent plugin is no plugin).

Two attempts to prove something failed for a reason and changed the model. `PolicyBeforePlugin` had spoken of every change of the plugin variable, the
ageing of its token by `Tick` included, and is now about the steps of a reconciliation, as the code's comment is. And the deletion by others
of a policy that the informer had not shown yet woke nobody, so that with two such interferences an Engine could come to rest without a policy;
the watch on policies reports that deletion too, and `DeletePolicy` now says so.

**`ProjectManagerProofs`**: `TypeCorrect`, `IssuesSettle`, `PullRequestsSettle`, `TriageIsNeverLost`, for any number of jobs, areas, sizes, milestones,
boards, edits and failing calls. `TInv` has the types and the shape of what a job has in hand at each step (`Shaped`): which calls may follow which
labels. `Solo` says that a job that started alone is alone. `PhaseInv` is the heart: what the item has together with what the job still has to do is what is wanted. For an issue that
holds as long as nobody has interfered since the last job started, or no event is pending in spite of it (`Fresh`): `update-labels` holds additions and removals that lead to labels that tell one story (`TriagedAs`), and
`close-declined` has made, or will make, a declined issue one with `triage/declined` only, no milestone, and closed (`Declines`), which `update-labels` then leaves
alone. A pull request people may change at any time without an event, so each part holds up to what they did to it: as long as nobody has taken off a size since the job
started, one is there or in hand, then there (`SizedPhase`); as long as nobody has taken off the milestone, one is set or none is open (`MilestonePhase`). `EndInv` is what is left of that when the job has
ended; `SizeInv` is the one size, in hand or there, as long as jobs have never overlapped and no person has doubled it (`SizePhase`). `LabelUpdatesTriage` computes `computeLabelUpdates` and its companions through once, for any
labels; `LowestIsListed` and `OldestIsABoard` show that the two `CHOOSE`s have something to choose. Assumptions: `TriageAssumption` (milestones are a list of numbers
and versions, sizes and board numbers are naturals, the marks of an absent milestone and board are none), `LabelAssumption` (area labels are no triage or size
labels).

**`RuleFilterProofs`**: `FilterTypeCorrect`, `DropsAreReported`, `FilterIsExact`, `OutputIsSupported`, for files of any length
and any lines, any ids and any options. The state invariant is simple (`Filtered`: once the generator has run, the output and
the warnings are what `Process` makes of the file as it is, and nothing otherwise); the work is in what the loops compute. The
provers cannot use the library's induction theorems, so `UpTo` replaces them: a set that holds 0 and, with a number
below `n`, the next one, holds all up to `n` (from `LeastNumber`), and a set of turns takes the place of a predicate. `LoopExists` and
`LoopUnique` show with it that a recursive function of the turns exists and is the only one, which is what the loops of the model and
the `FlattenSeq` of the library need before anything can be said of them. On that rest, in this order:

- `SplitIntoRules`: the blocks concatenate to the lines, none is empty (an invariant of `TakeLine`). This and `ChainSecRuleGroups` give
  `EveryDropReported`, with no condition on the file: the groups are the classes of "in one chain with" (`ChainIn`), so that the loop that drops and
  the loop that reports agree (`DropIsReported`).
- `BlocksAreComplete`: on a file laid out as authors do, the generator and Coraza are in the middle of a directive at the same
  lines (`TurnsAgree`), so that each block is a rule, a comment or a blank line as a whole; `ReadWithout`: Coraza therefore reads in any
  choice of blocks just the rules chosen.
- `PlacesOrder`, `SelectedPlaces`, `SelectedAgain`: where the rules of the file stand among its blocks, and that choosing among the rules is
  choosing among the blocks.
- `ChainsAgree`: a chain of blocks, comments in between, and a chain of rules have an unwanted member together. This is where it matters that a
  chain is made of SecRules and that its action is visible. `ProcessedExactly` puts these together.
- `OutputSupported` takes files with indented rules and chains of any kind, where blocks and rules no longer agree. `BlocksAreOwned` says what is left: an active line of a
  block is of a rule that does not begin in the first column, or its block is a whole rule (by induction over the lines: `TurnFollows`, `OwnedStays`). An unsupported rule
  begins there, so it is its block, and the one unquoted id in it (`RuleId`) is the one the generator finds, so that the block was unwanted. With quotes the last step
  fails, as it must.

Two attempts failed for a reason and changed `WellFormed`: `FilterExact` was false of a `SecRuleEngine` line with an id or
`@pmFromFile`, which the code drops as if it were a rule (no such directive has either; the files TLC went through had none), and a commented-out rule
of several lines had been counted as ill-formed. Assumptions (`RuleFilterAssumption`): `NoId` is no id, the registry is of ids, fragments are
sequences of lines, the bound is a natural.

Only model-checked:

- everything under fairness (`StaleCollected`, `OversizeResolved`, `RevocationTakesEffect`, `ServedConverges`, `StatusConvergesFresh`, `NoOrphans`, `Provisioned`,
  `InForceConverges`, `BadUpdateTolerated`): liveness is out of the prover's reach;
- what the four runs that expect a violation refute.

## 5. Plan

1. *(done)* `RulesStore`, `RuleSetCache`, `CacheServer`, `RuleSetController` with proofs; `EngineController` with its runs.
2. *(done)* `Operator` with proofs; `RuleFilter`; `ProjectManager`.
3. *(done)* Proofs of every safety property of the cache, the server, both controllers, the operator and the triage tool that a run checks.
4. *(done)* `RuleFilter`: its loops as functions of the number of lines taken, and proofs of its four properties. Every safety property that a
   passing run checks is now a theorem.

## 6. Not modelled

- Flags other than `--leader-elect` and `--operator-name`, TLS, metrics, logs, events and message texts: configuration and output.
- `handleInvalidDriverConfiguration` and the empty-selector check: the API server admits only the
  wasm driver and a named Gateway target, so these paths cannot be taken.
- The generator's YAML rendering, name and size checks, and the kubectl plugin's flags: formatting and configuration. That
  two file names may be sanitised to one object name is listed as a hazard without a property.
- The triage tool's dry run, which changes nothing, and its lookup of a board by number, which no workflow uses.
- memfs: a map filled and read by one validation, sequential and never shared. Deepcopy code is generated; chart,
  manifests and the test framework carry no logic of the operator.
- The WASM plugin, Istio, Coraza, GitHub and the API server are other projects.
