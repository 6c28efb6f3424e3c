# TLA+ verification of nvt-agent

nvt-agent runs coding agents in isolated containers: a control plane admits runs and
drives containers or pods, a broker hands out credentials, an egress proxy injects them,
a gateway and a portal face the users, and producers turn GitHub comments into runs. This
directory holds TLA+ models of the parts whose correctness depends on interleavings,
failures and durable state, TLC configurations that check them, and TLAPS proofs.

## 1. Inventory

| Component | State it keeps | Operations | Interacts with | Hard behaviour |
|---|---|---|---|---|
| Local run store (`src/localcontroller/internal/controller/store.go`) | SQLite table `local_runs` | create (batch, startup inventory), claim, status report, abort, cancel, delete, sweep | HTTP API, scheduler, reconciler | many writers, compare-and-swap, deadlines, tombstones |
| Local reconciler and process (`reconciler.go`, `cmd/nvt-local-controller`) | recovery flag, owner identity | recover, reconcile passes, claim → backend → report | store, Docker backend | crash between any two steps, lease expiry, lost reports |
| Docker backend (`src/localcontroller/internal/dockerbackend`) | containers, volumes, networks, broker registry entry | ensure (with rollout and rollback), inspect, delete, CA rotation | Docker, broker | partial failure, rollback, ownership labels |
| Local HTTP API, schedules, routes | none of their own | decode, authorise, admit | store | replay, idempotency |
| Operator (`src/operator/internal/controller`) | Kubernetes objects, AgentRun status | reconcile AgentRun and AgentSchedule, egress CA, principal template switch | API server, broker, portal | stale caches, conflicting updates, retries |
| Broker (`src/broker`) | accounts, generations, seeds, leases on refresh | issue credentials, enrol, refresh, seed | providers, egressd, portal | single-use refresh tokens, crash during rotation |
| egressd (`src/egressd`) | CA, credential cache, reports | forward proxy, mediation, CA bootstrap, report | broker, captured | concurrent requests, cache expiry |
| captured (`src/captured`) | none | inspect the first bytes, find the original destination, relay | egressd | prefaces that are malformed or name another host |
| Gateway (`src/gateway`) | sessions in memory, signed cookies | sign in, admit, route, authorise, proxy | identity provider, controllers | concurrent logins, runs that change between two look-ups |
| Claim enrichment (`src/protocol/eligibility`) | none | ask claim sources page by page with the user's token | gateway, portal | sources that answer anything |
| Credential portal (`src/credentialportal`) | sessions, enrolments, a semaphore | sign in, enrol, reconnect, revoke, cancel | broker, credential runner | cancel, logout and time-outs against a completing enrolment |
| GitHub comment producer (`src/producers/github-comments`) | cursor and admission state | poll, parse, admit, retry | GitHub, controllers | duplicates, lost acknowledgements, crash between admit and save |
| Local platform (`src/localplatform`) | managed Docker volumes | compile manifest, plan, apply | Docker | partial application |
| Runtime (`src/runtime`) | prompt queue, session state | agentd, bootstrap, plugins, supervise, resume | egressd, broker | queue limits, session restarts |
| Protocol (`src/protocol`) | none | decode, validate, resolve, eligibility | all | pure functions |

Charts, examples, templates, assets, scripts and CI hold no run-time state of their own and
are not modelled.

## 2. Modules and their order

| Module | Models | Kind |
|---|---|---|
| `LocalRunStore` | the run table of the local controller and each of its transactions | component |
| `LocalRunAPI` | the store under every caller of its API; its properties | specification of the store |
| `LocalController` | processes, Docker backend and API callers around the store; extends `LocalRunAPI` and implements it | composition |
| `LocalEgressCA` | the durable egress CA of a workstation, `ca-init`, and the backend's decisions about it | component |
| `ScheduleAdmission` | the operator's admission handler and the AgentRuns of a schedule | component |
| `CommentProducer` | the GitHub comment producer in front of `ScheduleAdmission` | composition |
| `PrincipalAccounts` | the broker's dynamic accounts, their callers, and the operator's two handlers that reserve them | composition |
| `AgentRunReconciler` | the operator's passes over AgentRuns, the callback, and the cluster around them | composition |
| `RunLifecycle` | what the operator promises about an AgentRun | abstract specification |
| `EgressRender` | what the operator admits and renders for egress, and what egressd accepts at boot | component |
| `EgressTunnels` | egressd's forward proxy and captured in front of it | component |
| `EgressInjection` | one injecting route of egressd, its cache and quota, and the reporter | component |
| `Gateway` | logins, sessions, routing, authorisation and proxying of the gateway | component |
| `ClaimEnrichment` | the enrichment of a login's claims | component |
| `CredentialPortal` | the portal, its credential runner and its calls to the broker | composition |
| `MCLocalRunAPI`, `MCLocalController`, `MCControllerParts`, `MCCommentProducer`, `MCPrincipalAccounts`, `MCAgentRun`, `MCEgressRender` | small instances | model checking |
| `MCEgress`, `MCServices` | instances of components that share no state, checked side by side | model checking |
| `LocalRunAPIProofs`, `LocalControllerProofs`, `CommentProducerProofs`, `PrincipalAccountsProofs`, `AgentRunReconcilerProofs`, `LocalEgressCAProofs` | theorems about the module they are named after; those of `ScheduleAdmission` are in `CommentProducerProofs` | proofs |
| `EgressProofs` | theorems about `EgressTunnels`, `EgressInjection` and `EgressRender` | proofs |
| `ServicesProofs` | theorems about `Gateway`, `ClaimEnrichment` and `CredentialPortal` | proofs |

A behaviour of `MCEgress`, `MCServices`, `MCControllerParts` or `MCPrincipalAccounts` belongs to
one *part*, chosen in the initial state. Parts of the first two are different components whose
variables stay unchanged while another part moves; parts of the last two are two instances of
one specification (which documents or callers take part, how many faults; `SamePart` is the
action constraint that keeps a controller's document within its part). The state space is
therefore the sum, not the product, of the parts, and every property is still evaluated in every
state.

`PROJECT.json` maps every definition to the lines it translates. Definitions whose name has
the form `X_Word` (`Receive_KeepsReply`, `AtCapacity_OffByOne`) are deliberate faults: each
stands for a plausible mistake in the code `X` models and serves to show that a property
would notice it. No specification uses them.

### Order and what is left

The order follows what an error would cost: first the component that owns durable state and
starts and destroys runtimes, then the path by which work enters, the credentials, the
operator's own reconciler, the egress plane, and the services that face users. The proofs follow
the same order of importance. Left for later: the single-use refresh tokens of the broker's OAuth
plugins, and agentd's prompt queue.

## 3. The local controller

### The store (`LocalRunStore`, `LocalRunAPI`)

`runs` is the SQLite table: by run ID a row with the columns the code branches on. A
*snapshot* stands for a stored `RunSnapshot`; `RunOf` is the run it belongs to, `Frozen` the
part that a rollout must not change, `Rollable` the snapshots that `workstationUpdateCompatible`
lets roll over, `Expiring` the terminal states with a retention period, `Deadlined` the
snapshots with a timeout. `ownership` is the digest of the snapshot under which the volumes
were created.

Each operator that ends in a transaction is one atomic step, as SQLite makes it:
`Create` and `ReconcileWorkstations` (both `createBatch`), `Claim`, `UpdateStatus`,
`abortPendingConfiguration`, `requestStop` (`Cancel`, `Delete`) and `Sweep`. Every
transaction of the code opens with `sweepTx`; the action therefore computes on `Swept`. A
batch that is refused rolls its sweep back with the rest; the other operations commit the
sweep also when they refuse, and that outcome is the action `Sweep`. `createBatch` decides
per candidate (`Verdict`), per group (`GroupFree`), on capacity and on the prune set, and
then rewrites all rows at once (`Amended`, `PrunedRow`).

Points in time are abstracted to `none`, `ahead` and `due`: the code only asks whether a
deadline, a retention period or a lease has passed. `MaxRevision` bounds the revision counter.

Every reader of the code validates the rows it reads and refuses to work on a table with an
invalid one. `Available` is that condition and `validateStoredRun` the check; the repair of
malformed terminal rows at start-up and the schema migration are not modelled (no
transaction of this version writes rows that they apply to).

`LocalRunAPI` closes the component: any caller may take any operation with any of its
inputs, in any order. It knows nothing of Docker, so what holds in it holds whatever the
reconciler does.

### Processes and Docker (`LocalController`)

The module extends `LocalRunAPI`: the transactions, callers' inputs and inventories are the
store's, and a process changes `runs` through them only (`ControllerImplementsAPI`, proved).
An owner is one process incarnation, as in `NewProcessReconcileOwner`; a crashed one is
`dead` and never comes back, a new one starts. `proc[o]` holds the program counter and the
run the process works on; a pass is *recover*, *cleanup* or *work* in the order of `Run`.
`Take` is the claim; it leads to `Ensure` (preflight, upsert, volumes, compose, observe), to
`Delete` (unregister, containers, volumes) or straight to a report. Every Docker or broker
mutation is one step; `BackendFault` is any of these failing, `Crash` any point at which the
process may die. The deferred handler of `Ensure` is `Rollback` and `Restore`. The
reconciler reads a row before it claims it; the model reads at the claim, which is
equivalent because the claim compares revisions and every change advances them
(`EveryChangeBumpsRevision`, proved).

`box[r]` is what Docker and the broker registry hold for a run. Networks are created and
removed with the volumes and containers and carry the same label, so they are not kept
apart. `document` is the inventory file that `main` replays at start-up; an inventory the
store refuses is a fatal error, so `Start` is not enabled for it. `LeaseMayPass` states what
`config.go` enforces (the lease exceeds the operation timeout by 30 seconds) and its gap: the
deferred rollback has a timeout of its own.

### The egress CA of a workstation (`LocalEgressCA`)

`caFiles` is the private volume: certificate, key and the marker that announces a
replacement; a pair is known by its generation and the names it may vouch for. `caDue` holds
the generations that are old enough to be renewed, `caRun` the row of the run (snapshot,
staged snapshot, state), `caOp` the backend operation under way with its continuation, `caBox` the
generations that the running containers loaded. `ca-init` is the steps `InitStarts`,
`WriteCert`, `WriteKey` and the removal of the marker; `checkComposeCA`, `VerifyPrevious` and the
rest follow `reconcileDesiredCANameSet`. A Docker call may fail and the controller may die
between any two steps. `ForeignCA` is a pair somebody else put there. Assumed: a `ca-init`
container ends with the call that ran it, so that two never overlap.

Not modelled: the lifecycle event cursor, subnet selection, Compose rendering,
the HTTP layer's decoding and authorisation.

## 4. Schedule admission and the comment producer

### The operator's handler (`ScheduleAdmission`)

A request waits for the schedule's lock (`requests`), takes it and reads the schedule and its
AgentRuns (`Acquire`; `handling` holds what was read), and then answers (`Serve`), creating
the AgentRun if the verdict is `scheduled`. `ServeFails` is every 5xx answer, including a
`Create` that the API server executed although it reported an error. The handler reads from
the API server, not from a cache, so `seen` is the set of AgentRuns at the moment of the
read; between the read and the answer runs may finish, be collected, or a schedule be resumed.
When the caller is gone its handler goes on (`Orphan`, `Detach`) or fails at its next call
(`Abandon`). `OperatorRestart` loses all
handlers. The Deployment uses the strategy `Recreate`, so there are never two operators with
a lock each.

`Finish` is an AgentRun reaching a terminal phase, `Collect` its deletion after retention
(at most `MaxCollects` of them).

### The producer (`CommentProducer`)

One process polls the repositories in order. `StartRepo` notes the time, `ListRepo` lists the
comments since the cursor, and the loop takes the oldest comment first. A comment is skipped,
answered (help) or submitted. A help response passes through `HelpLookup`, `HelpReconcile`
(is the marker already on the issue?), `TryBeginHelpResponseAttempt`, `CreateIssueComment`
and `SetHelpResponseDelivered`, each a step of its own with SQLite or GitHub. `Submit` posts to
admission and `Receive` takes the answer. When nothing was deferred, `SetRepoCursor` stores the
cursor and `DeleteDeliveredHelpResponses` removes the records.

Time counts seconds, the precision of GitHub's `updated_at` and of `since`. Assumed of
GitHub: `since` is inclusive (were it exclusive, a comment of the poll's own second would be
lost), comments are listed by update time, the clocks of GitHub and the producer agree, and a
POST whose connection broke appears within `RetryDelay` or never. Reactions are best-effort
and follow from the answer, so `outcome` stands for them.

Not modelled: edits of comments, direct submission of AgentRuns, the `command` switch being
off, the per-comment scope of `pr create`, more than one page of comments, two overlapping
producer processes, authors whose permission changes over time.

## 5. Principal accounts and the template switch (`PrincipalAccounts`)

A principal owns one account: a directory with `metadata.json` and one credential file per
generation. `accounts` and `handles` are the manager's memory, `disk[p]` the directory:
`visible` is what the file system shows, `durable` what a machine crash may leave instead.
The manager works under one lock. Operations that only change metadata (reservations, switch
requests, eligibility) are one step, `Grant`; each is an operator from metadata to the set of
metadata it may leave, empty when it is refused. Enrolment, reconnect and revocation take
the steps `Prepare` (credential file, provider), `Replace` (rename) and `Sync` (directory
sync, publication, removal of the old file), with `PrepareFails`, `SyncFails` and `Restart` in
between. A failure after the rename latches the registry unhealthy (`Latch`). `Load` is the
start-up: it takes all accounts or none. A credential file is known by its generation; two
files of one generation never coexist.

Callers are frontend calls (`Mutations`, by operation ID), admission handlers and template
switch handlers. A call is sent at most twice; `late` holds requests that nobody waits for
any more and that may be executed at any later time, or never. A handler passes from `begin`
through `resolve` and `create`, or `list` and `commit`, to `end` or `abort`, the deferred
release; `Cancelled` is its context ending at any point, and `Failed` what it does then.
Time is abstracted to whether a reservation, a switch request or an eligibility lease is past
its end. A handler's context ends a second before its reservation, so a reservation does not
pass its end while its handler is in between (`InReservation`). Two handlers of one request
share a reservation, since the request ID is the operation ID.

Assumed: the clocks of broker and operator agree within that second; a `Create` takes effect
before its handler gives up or never; what a start of the broker reads is durable from then
on. Not modelled: signatures and decoding, file modes and lock sidecars, provider leases.

## 6. The AgentRun reconciler

### Passes and the cluster (`AgentRunReconciler`)

A pass (`work[r]`) is a sequence of API calls, one action each, in the order of `Reconcile`: the
finalizer, drifted Pods, the active deadline, claims, token Secrets, the egressd
configuration, the CA Secret, NetworkPolicies, egressd, the broker policy, preparation through
the broker, publication of the CA, the agent Pod, the status. It carries the copies it has read
and nothing else. An update compares the version it was read at (`Stored`, `WritePolicy`), so an
object changed since then is a conflict and ends the pass. `CallFails` ends it at any call,
`OperatorRestarts` ends all passes and may change the operator's environment. Between two calls
the kubelet, the garbage collector, the projection of the policy, the agent's callback, time, a
user and passes over other runs act. `policy` is the one ConfigMap that all runs share. Pods are
read through `cache`, which `CacheLags` lets miss what happened since the pass began.

`history` records per run how many Pods were created (`MaxPods`) and whether an entrypoint that
reported its event was started again.

### The abstract specification (`RunLifecycle`)

Three variables and six actions: a run is active, finished or gone; it is admitted by the
broker or not; it has an agent Pod or not. A run starts only when admitted, loses access only
when finished, never returns from finished, and is forgotten only without access.
`ImplementsRunLifecycle` maps the phase and the deletion mark to `stage`, the policy to `admitted`
and the Pods to `working`, and TLC checks that every step of the reconciler, the cluster and the
faults is a step or a stutter of `RunLifecycle`.

### From the spec to the objects (`EgressRender`)

Three programs decide on one document: the operator admits it
(`ValidateAgentRunEgressMode`), its renderers write the egressd configuration, the Service and
NetworkPolicies, the agent's configuration and Pod, and egressd validates what it is given at
boot. The operator may restart with another environment and the Pod may be lost between the
passes. A host is a name and a port, one name per case that the code tells apart. Some 4 000
documents in four environments are enumerated (`MCRenderSpecs`, `MCRenderEnvs`).

## 7. The egress plane and the services

### Tunnels (`EgressTunnels`)

A connection is a goroutine of the forward proxy, or captured's relay followed by one. Its
steps are the channel operations of `acquireTunnel` (slot, queue, waiting, leaving the queue), the
resolution, the dial, the TLS handshake and the release; each may fail, time out or be
cancelled. DNS gives any of `TunnelAnswers` at each look-up.

### Injection (`EgressInjection`)

A request takes the mutex, is served from the cache or fetches, is counted, sent with rewritten
headers and reported. The mutex is held across the fetch; the clock may advance between any two
steps. The broker may withdraw a key at any time, and an answer given before that may arrive
later. The reporter is its queue, batch, the send under way and the counts of delivered and
dropped reports.

### Gateway (`Gateway`)

`gJar` is what a browser keeps (login state cookie, session cookie, cookies of applications),
`gFlows` the logins at the identity provider. A request passes from routing over the session
look-up and authorisation to the look-up of the Pod, with runs being created, ended and their keys
taken over in between. Routing (`parseRoute`) and the links of the dashboard (`openURL`) are the
code's functions on paths and host labels.

### Enrichment (`ClaimEnrichment`)

One login's enrichment: each source is asked with the token, page by page; the answer is any of
`EnrPages`, with its items, bytes, nodes, links and secrets. Whatever is over a limit fails the
whole login.

### Portal (`CredentialPortal`)

A web request is split between its session check (`pAsk`) and its effect, a login between its
evaluation (`pLogin`) and its session. An enrolment is its goroutine (`pEnr`), the runner's session
(`pRun`) and its requests; `pLate` holds starts and writes whose client gave up and that may still be
executed. Portal and runner restart independently. `PtlModes` are the three stores: broker
account, Kubernetes Secret, file.

## 8. What is checked

Bounds are named in the modules: `MaxRevision`, `MaxLive`, `MaxFaults` and `MaxCalls` for the
controller, `MaxTime`, `MaxFaults` and `MaxCollects` for the producer, `MaxFaults` and the IDs
in `SwitchRequests` for the accounts, `MaxGeneration`, `MaxFaults` and `MaxPods` for the reconciler,
`MaxRestarts`, `TunnelMax`, `InjHorizon`, `InjQueueSize` and `MaxCAGen` for egress, `GwMaxFlows`,
`GwHorizon`, `EnrMaxItems` and `PtlHorizon` for the services.

| Run | Instance | What it shows |
|---|---|---|
| `services` | *workstation*: one workstation, three revisions of which one needs a replacement, two owners, revisions up to 12 | every row stays readable but for one named exception; ownership and snapshot never drift apart; every change advances the revision; tombstones are final |
| | *groups*: two scheduled runs of one active group, with deadline and retention | at most one of the group executes |
| | *gateway*: five configurations, two browsers, three runs and two keys | logins are not mixed, sessions are admitted and stay ended, a proxied request reaches what was authorised, links of the dashboard lead there, cookies stay with their application |
| | *enrichment*: a paginated list and an object, answers with links on, back and elsewhere | the token stays with the configured endpoints; claims are whole; budgets are per source |
| | *portal*: one principal, two enrolments, one slot, each store | a CLI runs only under its slot, success means stored, cancelled means not stored, no lease outlives its evaluation |
| `egress` | *render*: documents and environments as above | an admitted run's egressd boots; base URLs, ports and CA agree across renderers; an enforced agent holds no secret; shared hosts need a hint |
| | *tunnels*: three connections, one slot, one queue place | slots and places are given back exactly once; no private destination but a declared one; no capability is guessed |
| | *injection*: three requests, two keys, quota, cache and queue of one | quota exact, revocation bounded by the cache's lifetime, material in scope, headers clean, reports accounted |
| | *localca*: three sets of names, three generations | a published CA can always be gone on from; only recovery after a restart splits trust; foreign material is kept |
| `controller` | *rollout*: one workstation, rollouts, a replacement and a prune, two API calls or edits, three faults | nothing is left of a tombstone; no runtime of a terminal run; grants always belong to the configuration that runs; a run is `running` only with its committed snapshot and not stopped; volumes go only when deletion was asked for; a replacement starts clean |
| | *capacity*: a scheduled run and a workstation under a limit of one, two faults | the number of runtimes stays within the limit; an accepted DELETE sticks, unless a replacement absorbs it |
| `controller_liveness` | one workstation, two faults, one call | cleanup ends, admitted runs progress |
| `producer_admission` | four commands by two principals, one denied, two of one group, one fault, one collected run | a work has one run; schedule, principal and group stay in their limits; answers are honest |
| `producer_liveness` | a help request, two commands competing for one slot, a misplaced command, one posted late, one fault | the cursor skips nothing, a help record is answered once, every command is answered |
| `accounts` | *switch*: one principal and two templates; enrolment, revocation, switch request, enrolment with the other template, one admission, one switch handler, one fault | an active AgentRun never sees its account's template change; only a switch reservation without its request makes metadata unloadable |
| | *rotation*: two principals under a limit of one account; enrolments, reconnect, revocation, renewal, two faults | metadata that a start may find names a credential that exists; acknowledged operations are durable and executed once; a healthy broker decides on what is on disk |
| `agentrun_lifecycle` | seven kinds of run alone with one or two faults, and two runs sharing the policy | access, fence, CA generation, configuration and claims stay with the Pods; the reconciler implements `RunLifecycle` |
| `agentrun_progress` | four kinds of run, a lagging cache | an overdue run loses Pods and access, a terminal one is collected |

Most properties a run checks are conjunctions of named parts, one per question; the parts
are stated, with their comments, next to the conjunction:

| Property | Parts |
|---|---|
| `NothingLeftBehind` | `ControllerTypeOK`, `TombstonesHoldNothing`, `TerminalRunsHoldNoRuntime` |
| `RunningAsCommitted` | `GrantsMatchRuntime`, `RunningServesSnapshot`, `RunningIsNotPaused` |
| `StopsAsAsked` | `VolumesSurvive`, `ReplacementStartsClean`, `AcceptedDeletesStick` |
| `RunsProgress` | `StoppingEnds`, `PendingProgresses` |
| `WithinLimits` | `WithinParallelism`, `PrincipalWithinLimit`, `GroupExclusive` (of `ScheduleAdmission`) |
| `HelpAnsweredOnce` | `TypeOK` (of `CommentProducer`), `OneReplyPerMarker` |
| `StorageIsHonest` | `AccountsTypeOK`, `NamedCredentialSurvives`, `AcknowledgedIsDurable`, `MemoryIsDisk` |
| `AccessFollowsRun` | `RevokedBeforeGone`, `ActivePodIsAdmitted` |
| `PodsMatchInputs` | `ReconcilerTypeOK`, `OneGeneration`, `ConfigUnderPod` |
| `DependenciesOutlivePods` | `FenceOutlivesPods`, `ClaimsOutlivePods` |
| `RunsEnd` | `DeadlineIsEnforced`, `TerminalIsCollected` |
| `RenderersAgree` | `BaseURLsReachTheirRoute`, `ZeroSecretAgent`, `SharedHostNeedsHint` |
| `ReachesOnlyAllowed` | `NoDeniedDestination`, `NeverGuessed` |
| `MaterialBounded` | `RevocationTakesEffect`, `MaterialInScope`, `OutboundClean` |
| `TrafficAccounted` | `QuotaExact`, `ReportsAccounted` |
| `SessionsEarned` | `LoginsNotMixed`, `SessionsAdmitted`, `EndedSessionsStayEnded` |
| `RunsKeptApart` | `ProxiedAsAuthorised`, `DashboardLinksOpen`, `CookiesConfined` |
| `EnrichmentSound` | `TokenStaysHome`, `ClaimsWhole`, `WithinBudget` |
| `EnrolmentsSettle` | `TornDownBeforeRelease`, `SuccessIsStored`, `CancelledStoresNothing` |

`PROJECT.json` lists deliberate faults for every property, for most parts one of their own.

Three revisions are the fewest with two compatible snapshots and an incompatible one; two
owners the fewest with a takeover; three process incarnations allow two crashes, so that the
second hits the recovery from the first. Three faults let a failure, the failure of its
rollback and a crash follow each other. For the producer one fault is enough for each kind of
uncertain outcome, and two seconds plus a quiet one let a comment arrive before, during and
after the poll that advances the cursor past its second; with `RetryDelay = 1` a help
response is retried within the bound. For the accounts, one admission and one switch are the
fewest that can cross. Two CA generations and two Pods let one rotation complete around a
run; a second run is needed only for the shared policy. Three connections are the fewest of which
one holds the slot, one waits and one is refused; three requests with a cache of one and a quota of
one evict and exceed. Three CA names are the fewest with a third snapshot after a failed rollout.

`GatewayFocus` and `PortalFocus` in `MCServices` leave out combinations that multiply states
without new interactions: a second login together with runs, or a second enrolment together
with every other kind of trouble. `StoreNext` gives the groups fewer owners and revisions.

The runs that allow deadlock do so because a bound ends behaviours (`MaxRevision`,
`InjHorizon`, `PtlHorizon`), because a controller may be down for good (all owners used, or its
document refused), or because nothing is left to happen when all calls were made and all runs
collected. The producer runs check for deadlock.

### Disagreements found

Three runs expect a violation. Each checks a sentence of the repository:

* `controller_replacement_crash`: a crash during an immutable replacement makes the same
  document a conflict at every later start-up.
* `ca_revert`: with `CARevises` a document may change again after a rollout that replaced the CA
  failed or was cut off. The CA then vouches for neither the previous nor the desired names,
  and every later preparation stops at `backend.go:569`.
* `agentrun_reexecution`: an agent that exits while a CA rotation is deleting its Pod leaves no
  durable event and is executed again.

Named exceptions in the properties, each reached by TLC when the exception is removed:

* `OnlyRevertBreaksRows`: going back to the stored snapshot while its immutable replacement is being
  cleaned up leaves a row in `preparing` with `delete_requested` set (`store.go:650`), which
  `validateStoredRun` rejects, so that every later operation fails. `Reverted` names exactly this
  row; it is proved to be the only way a row becomes invalid.
* `AcceptedDeletesStick`: a DELETE of a run that is being replaced is answered 202 and forgotten
  when the replacement begins (`store.go:1120`).
* `OnlyReservedSwitchUnloadable`: an enrolment of the same template during a switch reservation
  leaves an active account with that reservation, which `_validate_metadata` refuses
  (`dynamic_accounts.py:931`).
* `OnlyRecoverySplitsTrust`: `up --no-recreate` after a restart of the controller re-runs
  `ca-init`, which may renew the pair under containers that keep running.
* `TornDownBeforeRelease`: a start of a CLI that the portal gave up on may be executed by the
  runner after both of its DELETEs, so that the CLI outlives the terminal status.
* `AdmittedBoots` speaks of canonical hosts. The operator accepts a host with a port that is no
  number, and a name that is no DNS name, and egressd refuses to boot with either.

Other instances of the same modules lead to counterexamples that no run keeps:

* `LocalController` with an `Unsupported` snapshot as a second rollout breaks
  `RunningIsNotPaused`: the second rollout is rejected by inspection (`backend.go:184`) and
  aborts to `running` although the first one had stopped the runtime. It breaks
  `RunningServesSnapshot` too: a crash after the first rollout's containers are up and before it
  is reported leaves the new configuration running, and the abort of the rejected second one
  reports the run as `running` its old snapshot.
* `LocalController` with the inventories `MovedWorkstation` breaks `RuntimesWithinLimit`: a
  replacement that returns from cleanup is not counted against the limit (`store.go:611`).
* `AgentRunReconciler` with `CacheLags` breaks `FenceOutlivesPods`: a Pod that was created, disrupted
  and found overdue within one pass is missing from the cache, and its NetworkPolicies are deleted
  while it terminates (`operator/docs/agentrun.md:475-478` says they stay until both Pods are
  confirmed gone).

Observations made while reading that no run states:

Local controller.

* `terminal_target` of a run is rewritten by a prune or a replacement (the protocol document,
  lines 331-332, says it is kept).
* Two live controllers can race on a tombstone (lines 335-337); `MaxLive` is 1 in all runs.
* A raw create of an existing run with a compatible snapshot stages a rollout (lines 230-231
  say 409).
* A run that is still `pending` when its document is edited makes start-up refuse the
  document (`store.go:530`) until somebody restores it.
* A first CA pair is written without a marker, so a crash between certificate and key needs
  manual repair; a check-only `ca-init` on an empty volume writes a pair.

Admission and producer.

* A help comment of the cursor's own second is answered again once its record was deleted
  (`poller.go:281`), although the producer's README calls itself restart-safe and idempotent.
* Without `initialSince`, a command deferred before the first cursor was stored is lost when
  the process restarts (`poller.go:106`).
* A command replayed after its AgentRun's retention is executed again (`agentrun_lifecycle.go:54`).
* A repository whose calls keep failing starves the ones after it (`poller.go:78`), and the
  HTTP client has no timeout (`cmd/github-comments/main.go:48`).
* Authorisation precedes the duplicate check in the handler, so a change of the schedule after
  a lost 201 turns the retry into a rejection although an AgentRun exists.
* A `Create` that the API server executes after the handler's reservation was released may follow a
  committed switch (`agentschedule_admission.go:510`).

Principal accounts.

* Directories of failed first enrolments count against the limit when the broker starts
  (`dynamic_accounts.py:1018`) but not when another principal enrols (line 638); the next start may
  then refuse the whole registry (`protocol/broker.md:249-250`).
* The log of completed operations is bounded (line 1204); a start after a failed directory sync
  serves what was never synced (line 1029); `swap` waits under the manager's lock for leased
  providers (line 962).
* The portal asks for a template switch without asserting eligibility
  (`broker_client.go:258`), which the broker requires (`dynamic_accounts.py:647`).
* A delayed repetition of an eligibility renewal undoes a denial that followed it.

AgentRuns and egress.

* Hosts are keyed without lower-casing in one of the two maps (`agentrun_policy.go:430`), and CA names
  keep their case; a grant for the name of the run's own egressd Service is accepted.
* With three header-inject grants in forward-proxy mode the third route's port is the proxy's
  (8471 + 2 = 8473).
* Changing `NVT_EGRESS_ALLOWED_TCP_PORTS` between passes leaves a frozen configuration and newer
  NetworkPolicies (`agentrun_policy.go:81-82`); withdrawing TLS while the configuration is frozen
  makes egressd refuse to boot after the loss of its Pod (`agentrun_controller.go:292-294`).
* The reporter's final drain uses a context that is already cancelled; the mutex of a route is
  held across a fetch without a timeout, so one hanging fetch blocks the route.

Gateway and portal.

* The Pod of a run is looked up by the run's name after the authorisation; in subdomain mode a
  cookie that an application sets for the whole domain reaches every run.
* With a base path in path mode the links of local runs lead nowhere; `DashboardLinksOpen` leaves
  this configuration out.
* An access key `agents` is shadowed by the dashboard in path mode; `openURL` does not validate keys
  in subdomain mode.
* A denied login revokes the lease and the web sessions but does not cancel enrolments under way,
  whose completion commits the earlier lease (`docs/credential-portal.md:317-318`). A transient
  failure of the enrichment revokes as well.
* A connect that was checked before a logout starts an enrolment after `CancelPrincipal`; a revocation
  that races a completing enrolment, or whose answer is lost, leaves an account enrolled.
* A reconnect from an older session can shorten a newer lease; an action published after a
  cancellation shows its URL again.

### Fairness

`controller_liveness` and `controller_replacement_crash` use weak fairness of `Start` (the
container is started with `restart: unless-stopped`, `localplatform/lifecycle/render.go:157`),
of `Step` of each owner (the reconcile loop has a ticker and every backend call a timeout) and
of the clock. Faults are bounded and never forced: the claims are about an environment that
recovers in the end.

`agentrun_progress` uses strong fairness of `Reconcile` (errors and requeues put a run back into
the work queue, and another run's pass may occupy the worker in between) and of time, which
other steps interrupt, and weak fairness of the steps of a pass, of the kubelet removing Pods and
starting egressd, and of cache and policy projection catching up. Faults are bounded. The agent
itself is not fair: it may never start, exit or report.

`producer_liveness` uses weak fairness of the poller (ticker; each call returns or fails), of
the operator's handlers, of AgentRuns ending (`reconcileActiveDeadline`) and of time.
The poller's HTTP client has no timeout of its own, so for it "each call returns" is an
assumption on the peers. `CommandsAnswered` is conditional on the
schedule not staying suspended, since resuming is an administrator's decision.

## 9. What is proved

Every theorem holds for every value of the constants its module declares: any number of runs,
callers, connections, comments, browsers or enrolments, any limit, any amount of the faults the
model has. The bounds of the runs play no part. What is assumed of the constants is stated in
the `ASSUME` of the module that declares them; TLC evaluates each in a run.

| Theorem | States | Inductive invariant |
|---|---|---|
| `LocalRunAPIProofs!TypeCorrect`, `RowsStayValid` | `TypeOK`, `OnlyRevertBreaksRows` | `TableInv` |
| `LocalRunAPIProofs!Revisions`, `Tombstones` | `EveryChangeBumpsRevision`, `TombstonesFinal` | `TableInv` |
| `LocalRunAPIProofs!VolumesStayCompatible`, `OneRunPerGroup` | `OwnershipMatchesSnapshot`, `GroupExclusive` | `TableInv` and the property |
| `LocalControllerProofs!ControllerImplementsAPI` | `Spec` of `LocalRunAPI`, of which `ControllerSpec` is a refinement | `ClaimInv` |
| `LocalControllerProofs!EndedRunsHoldNothing`, `StopsDoAsAsked` | `NothingLeftBehind`, `StopsAsAsked`, where `OneController` | `ClaimInv`, `BoxInv` |
| `LocalControllerProofs!RunsAsCommitted` | `RunningAsCommitted`, where `OneController` and `RolloutsSupported` | `ClaimInv`, `BoxInv`, `ServeInv` |
| `LocalControllerProofs!LimitIsKept` | `RuntimesWithinLimit`, where `OneController` and `OneReplaced` | `ClaimInv`, `BoxInv`, `LimitInv` |
| `LocalEgressCAProofs!ForeignPairsStay` | `ForeignCAKept` | `VolumeInv` |
| `LocalEgressCAProofs!AlwaysRecoverable` | `CARecoverable`, where `~CARevises` | `VolumeInv`, `NamesInv` |
| `LocalEgressCAProofs!TrustIsNotSplit` | `OnlyRecoverySplitsTrust` | `VolumeInv`, `TrustInv` |
| `CommentProducerProofs!OneRunEach`, `LimitsHold` | `OneRunPerWork`, `WithinLimits` | `AdmissionInv` |
| `CommentProducerProofs!ReactionsHonest` | `OutcomesHonest` | `TimesInv`, `TalkInv` |
| `CommentProducerProofs!HelpPostedOnce` | `HelpAnsweredOnce` | `TimesInv`, `HelpInv` |
| `CommentProducerProofs!CursorSkipsNothing`, `NothingDueIsSkipped` | `NothingSkipped`, `NothingDueSkipped` | `TimesInv`, `CursorInv` |
| `PrincipalAccountsProofs!OneTemplateTheorem`, `UnloadableTheorem`, `OperationsOnceTheorem` | `OneTemplate`, `OnlyReservedSwitchUnloadable`, `OperationsOnce` | `AccountsInv` |
| `PrincipalAccountsProofs!StorageTheorem` | `AccountsTypeOK`, `NamedCredentialSurvives`, `MemoryIsDisk` | `AccountsInv`, `FunctionsOK` |
| `PrincipalAccountsProofs!StorageIsHonestTheorem` | `StorageIsHonest`, where `LogFits` | `AccountsInv`, `FunctionsOK`, `AnswersInv` |
| `AgentRunReconcilerProofs!AccessTracksRun` | `AccessFollowsRun` | `AccessInv` |
| `AgentRunReconcilerProofs!ReconcilerRefinesLifecycle` | `ImplementsRunLifecycle` | `AccessInv` |
| `AgentRunReconcilerProofs!PodsKeepDependencies` | `DependenciesOutlivePods`, where `CurrentCache` | `AccessInv`, `ObjectInv` |
| `AgentRunReconcilerProofs!PodsKeepInputs` | `PodsMatchInputs`, where `CurrentCache` | `AccessInv`, `ObjectInv`, `StatusInv` |
| `EgressProofs!SlotsNeverLeak`, `OnlyAllowedReached` | `TunnelsAccounted`, `ReachesOnlyAllowed` | `TunnelInv` |
| `EgressProofs!CountsExact`, `MaterialStaysBounded` | `TrafficAccounted`, `MaterialBounded` | `InjectionInv` |
| `EgressProofs!RenderersAlwaysAgree` | `RenderersAgree` | `RenderInv` |
| `EgressProofs!AdmittedRunsBoot` | `AdmittedBoots`, where `TLSKept` | `RenderInv` and the property |
| `ServicesProofs!EnrichmentIsSound` | `EnrichmentSound` | `EnrichmentInv` |
| `ServicesProofs!SessionsAreEarned` | `SessionsEarned` | `SessionInv` |
| `ServicesProofs!RequestsKeptApart`, `RunsAreKeptApart` | `ProxiedAsAuthorised` with `CookiesConfined`; `RunsKeptApart` | `RunInv` |
| `ServicesProofs!LeasesAreGranted` | `LeaseFromEvaluation` | `LeaseInv` |
| `ServicesProofs!EnrolmentsAreSettled` | `EnrolmentsSettle` | `SettleInv` |

**The store.** The assumptions are `StoreConstants` (which values the snapshots' attributes may
have; a rollable snapshot is a workstation without a retention period, as
`workstationUpdateCompatible` requires) and `CallerInputs`.
`OnlyRevertBreaksRows` is not inductive. The strengthening `TableInv` says of every row that
it is absent, a `GoodRow`, or the reverted row. `GoodRow` adds to `validateStoredRun` that a
rollable snapshot never carries a retention expiry (a prune moves a terminal row to `stopping`
without clearing it, and `stopping` rows must have none) and that a stopping row with a staged
snapshot has the target `completed` (the revert keeps the target, so another one would leave a
row that is neither valid nor `Reverted`). Since all operations rewrite rows independently, the
proof has a lemma per row transformer (`OverdueValid`, `RetiredValid`, `StageValid`, ... ,
`TransitionedValid`), lemmas that lift them through `createBatch` and the operations on one
row, and `NextKeepsInv`. A reverted row makes the table unavailable, so it needs no
transformer lemma: no operation runs on such a table. `Revisions` and `Tombstones` follow from
`TableInv` and a second family of lemmas: each transformer moves a row to a *later* one (same
row, or a higher revision and tombstones kept), and *later* is transitive, which carries it
through the opening sweep. `OneRunPerGroup` is an argument about two rows: a transformer that
makes a row an active member of its group is only applied where `claimConflict` found no other.

**The controller.** `ClaimInv` says of each process that a row which still has the revision of its
claim is the row that was claimed (`PinOK`): a report, an abort or a release that passes the
store's compare-and-swap therefore rests on what the process read. That is all the refinement
needs, and it holds for any number of live processes, expired leases included. What Docker and
the broker hold is another matter: two live processes may both work on a run, since a lease can
run out during the deferred rollback (`LeaseMayPass`), and then one may create what the other
has just removed. The theorems about `box` have the hypothesis `OneController` (`MaxLive = 1`),
which is how the platform deploys it: `localplatform/lifecycle/render.go:157` renders one
controller service with one container, and a restart begins when the previous process has ended. Crashes,
and claims that dead processes leave behind, are included. `BoxInv` says that whatever a run holds
is labelled with its ownership, that a terminal run holds no runtime and no grants and a tombstone
nothing (`BoxOK`), and of the process how far its `Delete` has come and what its Ensure may still
create (`WorkOK`). Rows meanwhile change under API calls and sweeps; `Keeps` and `Dooms` say which
changes `BoxOK` and `WorkOK` survive, with a lemma per row transformer as in the store's proofs. `Lawful`
is what one step may do to volumes, ownership and accepted deletes; `StopsAsAsked` follows from it.

`RunningAsCommitted` relates three places, the row, the containers and the broker's grants, which no
transaction joins. `ServeInv` says of each run (`HoldsOK`) that grants are those of the
configuration that is up, that a row in which nothing was started yet or all has ended holds no
runtime and no grants, and that a row in service (`running`, or `preparing` its own snapshot) has
what its snapshot asks for. Of each process it says (`ServeOK`) that an Ensure which is no rollout
finds what its row says, and that a rollout has stopped the runtime before the grants change and is
for a row that nobody takes for running (`Applied`). `Stays` is what a row transformer must respect
for that: only a status report puts a row in service. The hypothesis `RolloutsSupported` (no
snapshot is both `Rollable` and `Unsupported`) is needed: section 8 describes how the abort of a
rejected second rollout breaks the property after an interrupted first one. The run `controller`
checks the case next to it, a rejected first rollout (`w4`).

`RuntimesWithinLimit` is about counting that happens in three places and at three moments: an API
create counts every active run, start-up counts only those that are not stopping
(`store.go:600`), and a run that returns from its cleanup as a replacement is not counted again.
`LimitInv` therefore counts rows that are *due* (`Due`): executing, or stopping and still able to
come back. `TableLimit` bounds them by `MaxActiveRuns` at all times; a step of the store that admits
no run makes none due (`Quiet`, with a lemma per row transformer), and `createBatch` counts the
ones it admits (`BatchCounts`). Runtimes that are stopping are not among them, so a new runtime may
only be made while due runs, runtimes and Ensures under way fit together (`Load`). That is true
throughout a work pass: it begins only when `replacementCleanupPending` is false, which means that
nothing is stopping or that all active runs together fit (`RoomForWork`), Ensure runs in no other
pass (`PassOK`, through the revision that `List` read), and the one step that admits runs meanwhile,
an API create, counts all active ones. The hypothesis `OneReplaced` says that inventories which may
replace a workstation name only that one; it is void where no inventory has the replacement flag,
and the run `controller` satisfies it with one that has. Without it the property is false
(`MovedWorkstation`, section 8).

**The egress CA.** `VolumeInv` says which four shapes the volume can have (empty, a foreign pair,
a first certificate whose key is still missing, a pair of ours, which alone is ever marked) and how
far the `ca-init` under way has come (`WritingOK`); a foreign pair is in no shape that a step
writes to. `NamesInv` adds that a pair without the marker vouches for the names of the committed
document or of the staged one, which is what the next attempt accepts. It holds where the document
is not replaced while it is rolled out (`~CARevises`); the run `ca_revert` shows how a
revert in that window leaves a pair that no later Ensure accepts, so the hypothesis of
`AlwaysRecoverable` is needed. `TrustInv` says that while the row is `running` the agent trusts the pair
in the volume and egressd serves no other, and that the agent is down before `ca-init` touches a
file; it holds with and without revised documents.

**Admission and the producer.** Only the holder of the schedule's lock adds AgentRuns, so what it
listed stays good enough to decide on: `AdmissionInv` says there is one holder, that every
AgentRun's work is in its list and that every active one is listed; the counts follow from the
cardinality theorems. The reactions need the conversation between the two processes (`TalkInv`):
a request that is still awaited belongs to the poller's current comment, and an answer was true
when it was given and stays true. `HelpInv` relates the stored marker, the posts seen on GitHub
and the requests that may still land: a response that was sent and not answered is
posted again only when every request for it has run out. `CursorInv` says of a poll in progress
that what the new cursor will pass is in hand or done. `CursorSkipsNothing` has the hypothesis
`InitialSince = 0`: with a later one, commands posted before it are skipped on purpose, and
`NothingDueIsSkipped` is the statement for that case. `WellFoundedInduction` gives the least
remaining comment of a poll.

**The accounts.** An account is in up to four places: the manager's memory, `metadata.json` as the
file system shows it, as a crash may leave it, and the metadata of the operation under way. A
start may go on with any of them, so `StoreInv` says what is true of *each* copy (`Copies`): it
is what `_validate_metadata` accepts apart from the reservation (`CopyOK`), the credential
file it names exists, and it can answer for the handlers that are under way (`TemplateOK`): every
admission that resolves or creates holds the reservation in it and has its template, every active
AgentRun has its template, and a switch is authorised in it only while the principal has
neither. The interesting part of `TemplateOK` is a commit that is on its way and waited for by
nobody: if the copy would still honour it, the principal has no AgentRun and no admission
that could create one, which is why an admission may not take a reservation while such a request
stands. `CallersInv` says where callers and late requests are: an admission whose release has been
sent never uses its reservation again, and handlers and requests only carry request IDs that
were drawn. `PlacesOK` says how the four places relate: a healthy manager's memory is the durable
copy, and the visible one too, but for the account whose metadata was just renamed.
`AnswersInv` follows acknowledgements: an operation whose caller was told of its success is in the log
of every copy. It needs `LogFits`, because the log keeps the last `MAX_OPERATIONS` (32) only: a
principal with more credential operations than that has its oldest ones forgotten, on purpose.
The other parts of `StorageIsHonest` do not depend on it (`StorageTheorem`). `AccountConstants` gives
the types of the callers' attributes and keeps the kinds of callers apart, `NoneIsApart` says that
the value that stands for "nothing" is no record. In each part of the run `accounts` a principal
has exactly as many credential operations as the log keeps.

**The reconciler.** A step concerns one run, except a restart of the operator. `Lawful` says what
a step may do to its run (one move of `RunLifecycle` or none, the policy entries of other runs
untouched, its pass in order) and each action is shown lawful; `LawfulKeepsInv` does the rest for
the invariant and the refinement alike. `AccessInv` knows of every pass which version of the
run it read and how that relates to the stored one (`VersionsOK`), which is what makes a
conflict on a stale write the protection it is, and what a pass has established at each place
(`PlaceOK`). It holds whether or not the operator's cache lags. `ReconcilerAssumption` restricts
specs to combinations the webhook and the API types admit; that a run with an old Pod or one that
is leaving is present was added to it when the proof needed it: the initial states of the other
combinations are not states of a cluster.

The Pods themselves need `ObjectInv`, which joins the objects of a run that are created, replaced
and deleted one API call at a time. `ObjectsOK` says what every Pod that exists, terminating ones
included, agrees with: the generation of the CA Secret and of its published ConfigMap, the stored
egressd configuration, the NetworkPolicies and the claims. It is inductive only with the pass
added: a pass that is about to create a Pod relies on what it made or checked several calls before,
so `PlaceReady` says for each place of the pass what is there by then, and that a Pod that exists is
one the pass has read, since only a run's own pass creates its Pods and others merely let them
fade. `Revoking` keeps apart the passes that reach the policy steps from a drift or a cleanup,
which build nothing. A lemma per step shows its effect on one run (`Effect`, `Sound`);
`SoundKeepsInv` lifts it. `StatusInv` adds the types of the stored runs and of the versions that
passes hold, which `ReconcilerTypeOK` needs. Both theorems have the hypothesis `CurrentCache`
(`CacheLags = FALSE`): section 8 shows how a lagging cache breaks `FenceOutlivesPods`. Of the
constants they assume that 0, which stands for an absent configuration, is no environment, that
there is a first CA generation (`MaxGeneration` is positive), and that a run whose Pod predates the
Docker claims is persistent and not mediated.

**The egress plane.** `TunnelInv` adds to the accounting that the counted sets are finite, and
says of each connection what was decided at its CONNECT (`ConnInv`): an injected connection still
has the route it was given, addresses waiting to be dialled were checked. The assumption
`TunnelRoutesFinite` says that a configuration lists finitely many routes. `InjectionInv` follows
header material from the cache to the request that uses it (`InUse`) and the quota and reports by
number. `OutboundClean` excepts `Connection` and `Upgrade` of an upgrade: the code puts both
back last (`copyUpgradeHeaders`), whatever the broker said of them.

**Rendering.** `RenderInv` says that each object of a run is what its renderer makes of the *stored*
spec in some environment that admitted it (not the current one: configurations are frozen, Pods and
policies are not), and which object exists before which. Two renderings of one spec then agree
if they enumerate its grants alike, so the lemmas are about the lists: `GrantsBy` and `Upstreams`
are concatenations (`FlattenSeq`), and the theorem that a concatenation of lists is a list
(`Flattens`) needs an induction. It is done over a *set*, the lengths for which the statement
fails, whose least member `WellFoundedInduction` gives (`LeastOf`, `UpTo`); `GrantsListed`,
`UpstreamsListed` and `InjectsListed` say what each list contains, `HintsGiven` that two hosts
which egressd takes for one got a hint, `URLsLead` that the agent's URL of a grant leads to the
listener of that grant, and `AdmittedAccepted` that each rule of egressd's `Validate` and `LoadCA`
follows from a rule of admission. `AdmittedRunsBoot` has the hypothesis `TLSKept`, that no
environment turns TLS to the broker on or off: section 8 says what happens otherwise, and the
environments of the run `egress` satisfy it. Everything else in an environment may change between
passes. `RenderAssumption` says that specs have the fields of the API type and that
hosts are lists of the kinds the model tells apart.

**Enrichment.** `EnrichmentInv` says that what the loop has collected so far, and the budget it has
left, are those of the pages answered for the current source, that earlier sources are whole
and later ones untouched. `EnrichmentInputs` gives the types of configurations and pages.

**The gateway.** `SessionInv` rests on flows being spent: a callback marks its flow used, so a
session, a cookie or a dead session whose flow is spent can be no other login's. `RunInv` says that
a request past its authorisation names a run that has had an owner, who is still the owner
recorded in it (a key passes from run to run, a run never changes owner), and that a path-mode
cookie comes from a run with that key. `RunsAreKeptApart` has the hypothesis `LinksUnshadowed`:
keys are not empty, the callback lies below `/oauth2` in subdomain mode too, and in path mode with
local runs no key is `agents` and no base path begins with it. Without the last two the claim is
false (section 8 describes the key `agents`); the configurations of the run `services` satisfy it.
`GatewayKeys` says that keys are strings, none of which stands for "no key".

**The portal.** `LeaseInv` follows the expiry of an evaluation through login, session, request,
enrolment and call on its way: each carries an expiry that some eligible evaluation granted, and
`pEval` only grows. `SettleInv` is about one enrolment, its session at the runner and its credential
(`RowSettles`): only `poll`, `delete` and `deleting` may have a live process unless a request was
given up; `ack` is reached with the credential stored; and an enrolment that writes or has
written, itself or by a call on its way (`CallSettles`), is *past* the check and was not
cancelled before it, which no later cancellation changes (`cancelLocked` records a late one).

## 10. Only model-checked

* Liveness (`RunsProgress`, `CommandsAnswered`, `RunsEnd`) and `ENABLED` are out of the prover's
  reach.
* `LocalController`: `RunningAsCommitted` with a rollout that the backend rejects is checked for a
  first rollout, and false for a second one. What holds of `box` with two live processes is not stated.
* `AgentRunReconciler`: what of `PodsMatchInputs` and `DependenciesOutlivePods` survives a lagging
  cache is not stated; section 8 says which part does not.

## 11. Not modelled

`PROJECT.json` lists every component with the reason. In short: the broker's server, providers
and plugins are routing, parsing and calls to vendors whose rules are not in the source; the
platform compiler and most of the protocol package are pure functions of one document; the
processes inside the container (agentd, session supervisor, plugins) and the seed supervisor are
mostly pseudo-terminal and file input and output, and the control plane sees only their exit;
the Docker-in-Docker sidecar, charts and scripts hold no state of their own. Within the modelled
components, decoding, signatures, TLS, page templates and the documents' remaining fields are
data that no property tells apart.
