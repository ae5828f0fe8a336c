# TLA+ models of pingora-gateway-controller

This directory holds TLA+ models of the controller: its route pipeline
(Gateway API routes in the cluster go in, a route table is pushed to the
Pingora proxy over gRPC), its Gateway status reconciler, and the pure
evaluators they share. It also holds the TLC configurations that check those
models. Every definition is translated from the Go source. `PROJECT.json` maps
each definition to the lines it models and lists the runs, mutants, findings
and hazards.

## The system

| Part | Code | State | Operations |
|---|---|---|---|
| HTTPRoute / GRPCRoute reconcilers | `src/unnamed/part_015` (HTTP), `src/unnamed/part_016` lines 1-363 (gRPC) | a work queue per controller, `startupComplete` | `Reconcile`, `Start` (startup sync), `syncAndUpdateStatus`, `updateRouteStatus`, event mappers |
| Shared route syncer | `src/unnamed/part_016` lines 400-855 (`PingoraRouteSyncer`) | `syncMu`, `conn`/`grpcClient`, `version` | `SyncAllRoutes`, `Connect`, `Close` |
| Event mappers | `src/internal/controller/mappers.go`, `PingoraConfigMapper` in part_015 | none | Gateway / PingoraConfig / Secret / ReferenceGrant events turned into route requests |
| Binding evaluator | `src/internal/routebinding` (binding.go, kind.go, part_012 hostname matcher) | none (pure) | `ValidateBinding`, `HostnamesIntersect`, namespace and kind gates |
| Gateway reconciler | `src/internal/controller/doc.go` | Gateway status | `Reconcile`, `updateStatus`, `countAttachedRoutes` |
| Config resolver | `src/internal/config/doc.go`, `src/api/v1alpha1/pingoraconfig_types.go` | none | `PingoraConfig` resolution, TLS setup, gRPC client creation |
| ReferenceGrant validator | `src/internal/referencegrant/validator.go` | none (pure) | `IsReferenceAllowed` |
| Route builder | `src/unnamed/part_013`, `src/internal/ingress/weight.go` | none (pure) | `BuildHTTPRoute`, `BuildGRPCRoute`, `SelectHighestWeightIndex` |

How they interact:
- The manager (`manager.go` `Run`) creates one `PingoraRouteSyncer` that the
  HTTP and gRPC reconcilers share.
- Each reconciler has one worker, controller-runtime's default of
  `MaxConcurrentReconciles`. Each also has a startup runnable, `Start`.
- Any reconcile that gets past the barrier calls `SyncAllRoutes`. Under
  `syncMu`, that call connects if needed, lists all HTTP and gRPC routes, and
  keeps those that some Gateway of our class accepts. It then increments
  `version` and sends the full table with `UpdateRoutes`.
- Each reconciler then writes `status.parents` for the routes of its own kind
  in that snapshot. Each write is a Get and an Update under `RetryOnConflict`.
- Gateway and PingoraConfig events reach the route reconcilers through map
  functions. All events pass `GenerationChangedPredicate`.

The hard behaviours:
- four goroutines share one syncer;
- the two reconcilers push full-table replacements;
- an RPC can fail before or after the proxy applied the table;
- status writes conflict with concurrent spec edits;
- the startup barrier;
- requests are dropped on some error paths and requeued on others.

- The Gateway reconciler (`controller/doc.go`) has its own single worker.
  It watches Gateways with no predicate, GatewayClasses, and PingoraConfigs
  (through `MapConfigToRequests`). It resolves the class's PingoraConfig and
  writes the Gateway's status: `Accepted` with the proxy address and the
  `attachedRoutes` of each listener, or `InvalidParameters` with a 30 s
  `RequeueAfter`.

## Modules

- **`PingoraResolver`** (`config/doc.go`, `IsTLSEnabled`). It has constants
  only, and both `GatewayStatus` and `RouteSync` extend it.
  - A PingoraConfig spec is its address and its TLS block: nil, or enabled
    with an optional `secretRef`.
  - A Secret's data is abstracted to whether each of `tls.crt`, `tls.key`
    and `ca.crt` is absent, valid or unparsable.
  - `ResolveFromGatewayClassName`, `resolveConfig` and `getSecret` (an empty
    namespace means the controller's) give the resolved config or an error.
  - `buildTLSConfigFails` and `CreateGRPCConnection` say whether `Connect`
    can build the client. `grpc.NewClient` does not dial, so only the TLS
    material can make it fail.
- **`HostnameMatch`** (part_012). `HostnamesIntersect`, `hostnameMatches` and
  `matchesWildcard` are operators over hostnames modelled as label sequences.
  - The code's `HasPrefix(h, "*.")` and `HasSuffix(h, "."+X)` only ever cut a
    name at a dot. On label sequences they become "first label is `*`" and
    "strict label suffix".
  - `ToLower` is modelled by what it does: a case-folding map on labels,
    where `B` folds to `b`.
  - `Denote(h)`, the set of concrete names a pattern stands for, is the
    reference semantics.
- **`RouteBinding`** (`routebinding/binding.go`, `kind.go`).
  - `ValidateBinding`, the listener walk of `findMatchingListeners` (the
    recursive `scanListeners`, with its section skip, error stop and
    last-reason bookkeeping) and `listenerAcceptsRoute`.
  - The namespace gate (`IsNamespaceAllowed`, `getNamespaceFrom`,
    `namespaceMatchesSelector`, with nil and invalid selectors and missing
    Namespaces), and the kind gate with protocol defaults.
  - `SpecBinding` states spec 4.5 over listener index sets, without a walk.
  - The hostname gate comes from `HostnameMatch` by `INSTANCE`.
  - `MCRouteSync` and `GatewayStatus` call `RB!ValidateBinding` from this
    module.
- **`RouteSync`** (the two route reconcilers, the shared syncer, the status
  writer and the mappers; the API server and the proxy are its environment).
  - Variables:
    - Cluster: `route`, `gen`, `gateway`, `config` (the spec of the
      PingoraConfig the class names) and `status`.
    - Controller: `queue` and `delayed`, one set per controller. The queue
      deduplicates, and `delayed` holds RequeueAfter and backoff requests.
    - Syncer and startup barrier: `started`, `syncMu`, `conn` and
      `version`. `conn` is the address the open connection goes to, or
      `None`.
    - Proxy: `proxyTable` and `proxyVersion`, one of each per address that
      a config can name.
    - Goroutines: `proc`, the local state of each of the four goroutines.
  - Actions follow the code's branches:
    - `Reconcile` → `ReconcileBeforeStartup`, `ReconcileGetFailed`,
      `ReconcileNotOurs`, `ReconcileSync`.
    - `SyncAllRoutes` → `SyncConnectFailed`, `SyncListFailed`, `SyncPush`,
      then `PushApplied`, `PushRejected` or `PushError`. `PushError` covers
      the table applied and not applied, and closes the connection.
    - Connection handling: a sync connects through `PingoraResolver` only
      when `conn = None`. It then talks to `SyncAddress`: the open
      connection's address, or the one `Connect` resolves.
    - `updateRouteStatus` → `StatusGet`, `StatusPutOK`, `StatusPutFailed`.
    - The end of a reconcile or startup sync → `FinishReconcile`,
      `FinishStartup`. The delay timer → `RequeueFires`.
    - The environment → `EditRoute`, `DeleteRoute`, `EditGateway`,
      `EditConfig(c)`. Each enqueues what the watch or map function
      enqueues.
    - `Restart`: the process exits and `Run` starts a new one. The queues
      are refilled by the informers' initial list, the startup syncs run
      again, and the syncer is new: no connection, version 0. The cluster
      and the proxies keep their state. A push in flight at the crash may
      or may not have landed.
  - `SyncPush` builds the message in one step under `syncMu`. The reply is a
    separate step, so other goroutines interleave between push and answer.
  - `FairSpec` adds the fairness of the liveness run (see Fairness).
  - `PC == INSTANCE ProxyChannel WITH ...` maps the syncer onto its abstract
    promise: `sent` is `version`, `inFlight` the messages of goroutines at
    `pc = "rpc"`, `installed` and `installedAt` the proxy's table and version.
- **`ProxyChannel`** (abstract, spec 4.9, I4, S6). What the syncer promises
  the proxies within one process: pushes take the next version, one push is
  in flight at a time, and its answer installs exactly the table and version
  sent, or nothing. `RouteSync` refines it (`ImplementsProxyChannel`).
- **`MCRouteSync`**: one HTTPRoute, two Gateways with one listener each. The
  gRPC controller still runs its worker and startup sync.
  - The class names the PingoraConfig `pc`.
  - In the passing runs its spec is plaintext at `p1`, or TLS at `p1`
    through a Secret whose CA does not parse (`Connect` fails).
  - In `route_sync_reconnect` it is plaintext at `p1` or at `p2`.
  - `OneFault` is the state constraint of `route_sync`: at most one failed
    push or restart per behaviour.
  `MCValidateBinding` builds the syncer's `RouteInfo` and calls
  `RB!ValidateBinding`.
- **`GatewayStatus`** (`controller/doc.go`, `config/doc.go`).
  - Variables:
    - Cluster: `gateway`, `gwRev`, `route`, `classRef`, `config`, `secrets`
      and `gwStatus` (condition, address, `attachedRoutes`).
    - `stampCurrent`: whether the last `LastTransitionTime` is still "now".
    - Controller: `queue` and `delayed`.
    - `worker`: the single worker's pc, Gateway, path (update or config
      error), address, the revision it read, the status it built and its
      retry count.
  - Actions:
    - `Reconcile` (Get, class check, config resolution, deletion check).
    - `StatusGet`: the fresh Get of `RetryOnConflict`, then the status
      `updateStatus` or `setConfigErrorStatus` builds. `countAttachedRoutes`
      runs here, each route List possibly failing.
    - `StatusPutOK` and `StatusPutFailed`: the Update succeeds, or conflicts
      within or past the budget.
    - `RequeueFires` and `Tick` (a second passes).
    - The environment: `EditGateway`, `EditRoute`, `EditGatewayClass`,
      `EditConfig`, `EditSecret`.
  - A successful status write enqueues the Gateway again unless it wrote the
    same content within the same second. This is because `LastTransitionTime`
    is `metav1.Now()` and the Gateway watch has no predicate.
  - The config comes from `PingoraResolver`, which gives the address or an
    error.
- **`BackendRefs`** (`referencegrant/validator.go`, `controller/mappers.go`,
  the builder's `buildBackend` in part_013).
  - `IsReferenceAllowed` with `grantAllowsReference`, `matchesFrom` and
    `matchesTo`, given the grants List of the target namespace or its
    failure.
  - The ReferenceGrant map function `FindRoutesForReferenceGrant` over
    `GetCrossNamespaceBackendNamespaces` and `extractCrossNamespaceBackends`.
  - No property relates the grants to the routes. `IsReferenceAllowed` has
    no caller outside tests, so a grant change that the map function
    delivers changes nothing the proxy receives. The repository's docs
    (part_003:86-88) say that deleting a ReferenceGrant breaks the affected
    routes at once; the code does not.
  - `buildBackend`'s kind filter, namespace and wire weight.
  - `SelectHighestWeightIndex` (`ingress/weight.go`) as a fold over a rule's
    backendRefs, and `SpecHighestWeightIndex` states spec 4.6 as a set
    minimum. The function has no caller (the builder emits every backend),
    but the spec describes it.
  - Each state is one route (up to two rules) and the grants of each of
    two namespaces. `Next` leaves it unchanged. Only the route is read by
    the checked property.

## Runs

| Run | Expect | What it shows |
|---|---|---|
| `route_sync` | pass | `TypeOK`, `NoAcceptedRouteMissingWhenIdle` and `AcceptedStatusCurrentWhenIdle`, with `RouteBinding` composed. Up to two edits of routes, Gateways or the PingoraConfig, and at most one fault: a failed push or a restart. Once idle, every accepted route is at the configured proxy with its current spec and has the right status. About 2.6M states, about 2.5 min. |
| `route_sync_versions` | pass | `AppliedVersionIncreases` within one process, with failing cache Get and List as well: the proxy never installs an older table. `ImplementsProxyChannel`: every step of the syncer is a step of `ProxyChannel` under the refinement mapping, so pushes are serial, versions fresh, and a proxy installs only what was sent with it. About 3.0M states, about 2.2 min. |
| `route_sync_restart` | violation | After a restart the version counter starts again at 1 (part_016:582). The proxy installs version 1 a second time, now with a different table. |
| `route_sync_reconnect` | violation | The config's address moves from `p1` to `p2`. The syncer keeps pushing over the open connection to `p1` (part_016:543), and goes idle with `p2` missing the route. |
| `route_sync_hung_rpc` | violation | `LockEventuallyAcquired` under `FairSpec`: a goroutine waiting for `syncMu` gets it. Violated when the proxy never answers the startup push: `UpdateRoutes` has no deadline (part_016:603) and every other sync waits forever. |
| `route_sync_stale_route` | violation | A pushed route stops being accepted. `Reconcile` returns early (part_015:312) and the proxy keeps serving it. |
| `route_binding` | pass | `ValidateBinding` equals spec 4.5's `SpecBinding` over every list of ≤2 listeners and every RouteInfo. This covers hostname, protocol, namespace policy and selector, kinds, and section. In the same run (a phase variable picks one input family), `hostnameMatches` is symmetric (P1) over hostnames of ≤3 labels and route lists of ≤2, and equals name-set overlap when one side is exact. About 2.3M states, about 70 s. |
| `gateway_status` | pass | `TypeOK` with every environment action and failing Lists: the status-write retries stay within the `RetryOnConflict` budget. About 740k states. |
| `gateway_status_attached` | pass | Routes are fixed while Gateways, the class and the config are edited and status writes conflict. Once quiescent, every live Gateway's `attachedRoutes` equals, per listener, the parentRefs that spec P4 binds to it. About 1.2M states. |
| `gateway_status_stale_attached` | violation | A route created after the last status write is never counted: the Gateway controller watches no routes (doc.go:388). |
| `gateway_status_config` | pass | `ConfigStatusConverges`: after the last edit, every live Gateway of ours ends up `InvalidParameters` exactly when its PingoraConfig does not resolve. Otherwise it ends up `Accepted` with the resolved address. `StatusLoopSettles`: the self-triggered status writes of doc.go:156 stop unless seconds keep passing. Routes empty, about 130k states. |
| `backend_weight_select` | pass | `SelectHighestMeetsSpec`: every rule's pick is the earliest backend of highest positive weight, a nil weight counting as 1, none when all are 0. The function has no production caller, so this says nothing about traffic. About 20 s. |

Every property of a passing run has a mutant in `PROJECT.json`, a plausible
code bug that TLC catches under the run's cfg:
- `hostnameMatches` forgetting the route-wildcard branch;
- `matchesWildcard` matching the apex;
- conflicts retried without a budget (in both reconcilers);
- dropping the RequeueAfter of a failed push;
- ignoring the per-parent binding result;
- pushing without `syncMu`;
- `findMatchingListeners` returning the last reason for a section name;
- `refMatchesGateway` ignoring the namespace;
- a config error returning without writing status;
- `SelectHighestWeightIndex` breaking ties toward the last backend;
- a status write that always re-enqueues the Gateway (ignoring the
  same-second no-op);
- a push carrying the counter read before the increment.

### Findings

- **Versions reused after a restart** (`route_sync_restart`). Spec I4, P3
  and S6 ask for a version that only increases. The counter is an
  in-memory `atomic.Uint64`, zero in every new `PingoraRouteSyncer`. The
  same happens when leadership moves to another replica. The fix is to seed
  the counter from the proxy's applied version, or from a persisted value.
- **No reconnect on a config change** (`route_sync_reconnect`). Spec 4.9
  enqueues every attached route on a ProxyConfig change. The syncer reuses
  its connection whatever the config now says. Only an RPC error closes it.
  The same holds for a new TLS Secret or TLS settings. `SyncAllRoutes` could
  compare the resolved config with the one it connected with.
- **Stale route** (`route_sync_stale_route`) and **stale attachedRoutes**
  (`gateway_status_stale_attached`): see the table.
- **RPC without a deadline** (`route_sync_hung_rpc`). `RequestTimeout` is
  resolved (config/doc.go:129) but `UpdateRoutes` runs with the reconcile's
  context, holding `syncMu`. Keepalive only detects a dead peer; a live
  proxy that never answers blocks every sync of both controllers.

Further disagreements that TLC showed while modelling are listed as
hazards in `PROJECT.json`. No kept run exercises them, so their notes say
how each was seen:
- a List failure swallowed (part_015:345, doc.go:298);
- no `Accepted=False` status for a rejected route (part_015:330);
- a Service parentRef counted as attached (doc.go:375);
- a deleted TLS Secret never seen by the Gateway reconciler
  (config/doc.go:145), which `ConfigStatusConverges` would report if
  `gateway_status_config` edited Secrets;
- wildcard pairs matched by suffix equality (part_012:46);
- a backendRef of weight 0 sent with weight 1 (part_013:305), which a unit
  test reaches and no run checks.

## Fairness

The `GatewayStatus` liveness run (`gateway_status_config`) assumes:
- `WF_vars(Worker)`: controller-runtime's worker goroutine takes the next
  request whenever the queue has one.
- `WF_vars(RequeueFires)`: a RequeueAfter or backoff timer eventually
  fires.

Edits and `Tick` get no fairness: the cluster may stop changing, and
seconds may stop passing while the worker runs. The status loop settles
without a `Tick`, because the second write within a second is a no-op. The
idle properties of the other runs condition on quiescence and need no
fairness. Those runs, like the Gateway runs, set `CHECK_DEADLOCK FALSE`: a
quiescent controller really does wait for the next event.

`RouteSync`'s `FairSpec` (run `route_sync_hung_rpc`) assumes:
- weak fairness of each controller's worker (a `Reconcile` branch), of its
  finishing step, and of each delay timer;
- strong fairness of each syncer goroutine's next local step
  (`GoroutineStep`): taking `syncMu` is strongly fair because Go's
  `sync.Mutex` switches to starvation mode after a waiter has waited 1 ms,
  handing the lock over in FIFO order;
- no fairness for the proxy's answer (`PushApplied`, `PushRejected`,
  `PushError`). Nothing in the code bounds the call: there is no deadline
  on the context, and keepalive only ends a dead connection.

## Bounds

- `MaxEdits` is 2 (3 in the config run). Two edits make a status write
  conflict twice and exhaust `RetryBudget = 1`. `RetryBudget = 1` behaves
  like `DefaultRetry.Steps = 5` while edits are fewer.
- `MaxFailures = 1` failed RPC reaches every RPC outcome. `MaxRestarts = 1`
  gives a restart with and without a push in flight.
- In `route_sync` the constraint `OneFault` allows one of the two per
  behaviour. Each fault is still reached at every point of every
  interleaving, and the run stays under three minutes. Without the
  constraint it takes almost five.
- Routes, listeners, hostnames and grants are as small as a case needs:
  - two listeners, for "matched one, rejected by the next";
  - two rules, for "cross-namespace backend in the second rule";
  - up to two grants per namespace, each with one from and one to entry;
    six grant lists cover an allowing grant, the core alias, a wrong from
    kind, a wrong to group and a wrong name;
  - hostnames of two labels, plus one for the wildcard witness.
- Two config specs in `RouteSync`: one that connects and one that does
  not, or two addresses.
- Liveness runs have no routes. `countAttachedRoutes` makes liveness
  checking with routes take over five minutes, and the attached counts are
  checked by the safety run instead.

## What is not modelled

- Secret edits in `RouteSync`. `GenerationChangedPredicate` drops Secret
  updates before `MapSecretToRequests` runs; creates and deletes pass it
  (and meet its `"default"` namespace). Either way a new Secret matters
  only at `Connect`: while connected the syncer never reconnects (the
  `route_sync_reconnect` finding), and while not connected a failed
  `Connect` is retried after 30 s. So the Secrets are constant there.
- Namespace label changes (no Namespace watch) and other controllers'
  `status.parents` entries. These are hazards without a property.
- The ReferenceGrant check on backends. The builder emits a
  cross-namespace backend without a grant, and `IsReferenceAllowed` has
  no caller outside tests (spec 9 records the gap). `BackendRefs` models
  the validator and the grant mapper as they are.
- Connect timeout, retry settings and `RequestTimeout`: resolved but
  unused. Keepalive is applied; it is part of why a reply may fail.
- The rest of the builder (ids, addresses, match records, duration
  parsing), which is formatting.
- The legacy `PingoraSyncer` (part_015 lines 1-215, no caller), the
  manager's wiring, the CLI, logging, metrics, the Helm chart and the docs.

## Plan

The project keeps twelve runs. Fourteen hazards in `PROJECT.json` have no
property that a kept run exercises; each note says why. Most need a
violation run of their own with the model as it is: failing Lists in
`route_sync` (part_015:345), a rejected route's status (part_015:330), a
Service parentRef or a failing List in `gateway_status_attached`
(doc.go:375, doc.go:298), Secret edits in `gateway_status_config`
(config/doc.go:145), and wildcard pairs in `route_binding` (part_012:46).
Others need new environment actions first: Namespace label changes
(binding.go:230), other controllers' `status.parents` entries
(part_015:379), and Secret creates and deletes in `RouteSync`
(part_015:475, part_015:654). A further run would replace one of the
violation runs above once its finding is fixed in the code.
