----------------------------- MODULE RouteSync -----------------------------
(***************************************************************************)
(* The route reconciliation engine: the shared PingoraRouteSyncer          *)
(* (src/unnamed/part_016, second file), the HTTPRoute and GRPCRoute       *)
(* reconcilers with their startup barrier and status writer                *)
(* (src/unnamed/part_015 second file, src/unnamed/part_016 first file),   *)
(* the event mappers that enqueue routes (internal/controller/mappers.go,  *)
(* part_015 PingoraConfigMapper) and, as environment, the API server and  *)
(* the proxy's UpdateRoutes RPC.                                           *)
(*                                                                         *)
(* Each controller has one worker (controller-runtime's default of one    *)
(* concurrent reconcile) and one startup runnable (Start); the four        *)
(* goroutines share the syncer, whose syncMu serialises SyncAllRoutes.    *)
(* The binding evaluator is the constant operator ValidateBinding, so     *)
(* the binding rules can be refined separately (RouteBinding).            *)
(***************************************************************************)
EXTENDS Naturals, Sequences, FiniteSets, PingoraResolver

CONSTANTS
    HTTPRoutes,       \* HTTPRoute objects (namespaced names)
    GRPCRoutes,       \* GRPCRoute objects
    Gateways,         \* Gateway objects
    OtherKindRef,     \* a parentRef whose kind is set and is not Gateway
    RouteSpecs,       \* route specs [parents: Seq(Gateways \cup {OtherKindRef}), ...]
    GatewaySpecs,     \* gateway specs [class: {"ours", "other"}, ...]
    ValidateBinding(_, _), \* (gateway spec, route spec) -> [accepted, reason]
    NoRoute,          \* no route (empty proxy slot, no request)
    None,             \* unheld mutex, no snapshot, no message
    MaxEdits,         \* bound on cluster changes
    MaxFailures,      \* bound on failed UpdateRoutes calls
    RetryBudget,      \* retry.DefaultRetry: conflicts retried before giving up
    ReadCanFail,      \* whether a cached Get or List may return an error
    MaxRestarts,      \* bound on controller process restarts
    ClassRef,         \* the GatewayClass's parametersRef (Absent, NoRef or a ref)
    ConfigSpecs,      \* PingoraConfig specs the named config may have
    Secrets           \* Secrets ([name, ns]) that exist

Routes == HTTPRoutes \cup GRPCRoutes
Controllers == {"http", "grpc"}
Procs == Controllers \X {"worker", "startup"}

ControllerOf(r) == IF r \in HTTPRoutes THEN "http" ELSE "grpc"
RoutesOf(c) == {r \in Routes : ControllerOf(r) = c}

VARIABLES
    route,         \* API server: route spec, or Absent
    gen,           \* API server: metadata.generation of each route
    gateway,       \* API server: gateway spec, or Absent
    config,        \* API server: spec of the PingoraConfig ClassRef names
    status,        \* API server: status.parents of each route
    queue,         \* work queue of each controller (a set: it deduplicates)
    delayed,       \* requests waiting for RequeueAfter or rate-limited retry
    started,       \* startupComplete of each reconciler
    syncMu,        \* holder of PingoraRouteSyncer.syncMu
    conn,          \* address the syncer's connection is to, None if nil
    version,       \* PingoraRouteSyncer.version
    proxyTable,    \* proxy at each address: route -> pushed spec or NoRoute
    proxyVersion,  \* proxy at each address: last applied version
    proc,          \* local state of each goroutine
    edits,         \* cluster changes made so far
    failures,      \* failed UpdateRoutes calls so far
    restarts       \* controller process restarts so far

vars == <<route, gen, gateway, config, status, queue, delayed, started,
          syncMu, conn, version, proxyTable, proxyVersion, proc, edits,
          failures, restarts>>
cluster == <<route, gen, gateway, config>>
syncer == <<syncMu, conn, version>>
proxy == <<proxyTable, proxyVersion>>

\* The proxies the configs name.
Addresses == {c.address : c \in ConfigSpecs} \ {""}

-----------------------------------------------------------------------------
(* Binding of the cluster as the syncer and the mappers evaluate it.      *)

\* The loop guards of getRelevantHTTPRoutes / IsRouteAcceptedByGateway /
\* updateRouteStatus: the ref is of kind Gateway, the Gateway exists and it
\* is of our class.
Qualifies(s, i) ==
    /\ s.parents[i] # OtherKindRef
    /\ gateway[s.parents[i]] # Absent
    /\ gateway[s.parents[i]].class = "ours"

\* routeBindingInfo.bindingResults: refIdx -> BindingResult.
BindingsOf(s) ==
    [i \in {j \in 1..Len(s.parents) : Qualifies(s, j)} |->
        ValidateBinding(gateway[s.parents[i]], s)]

\* IsRouteAcceptedByGateway, and the hasAcceptedBinding test of
\* getRelevantHTTPRoutes / getRelevantGRPCRoutes.
IsRouteAcceptedByGateway(r) ==
    /\ route[r] # Absent
    /\ \E i \in DOMAIN BindingsOf(route[r]) : BindingsOf(route[r])[i].accepted

\* The relevant routes of one SyncAllRoutes call, as pushed: BuildHTTPRoute
\* and BuildGRPCRoute are a function of the spec, so the spec stands for
\* the wire route.
DesiredTable == [r \in Routes |->
                    IF IsRouteAcceptedByGateway(r) THEN route[r] ELSE NoRoute]

\* SyncResult.HTTPRouteBindings / GRPCRouteBindings for every listed route.
SnapshotBindings == [r \in Routes |->
                        IF route[r] = Absent THEN <<>> ELSE BindingsOf(route[r])]

\* Mutant of ParentStatus: every qualifying parent reports the route's
\* overall acceptance instead of its own binding result.
ParentStatusIgnoringBinding(s, bind, syncErr) ==
    LET idx == SelectSeq([j \in 1..Len(s.parents) |-> j],
                         LAMBDA j : Qualifies(s, j))
    IN [k \in 1..Len(idx) |-> [ref |-> s.parents[idx[k]],
                               cond |-> IF syncErr THEN "Pending"
                                        ELSE "Accepted"]]

\* The loop of updateRouteStatus: one parent status per qualifying parentRef
\* of the fresh route s, Accepted from the sync error or the snapshot's
\* binding result at the same index.
ParentStatus(s, bind, syncErr) ==
    LET idx == SelectSeq([j \in 1..Len(s.parents) |-> j],
                         LAMBDA j : Qualifies(s, j))
        cond(i) == IF syncErr THEN "Pending"
                   ELSE IF i \in DOMAIN bind /\ ~bind[i].accepted
                        THEN bind[i].reason
                        ELSE "Accepted"
    IN [k \in 1..Len(idx) |-> [ref |-> s.parents[idx[k]],
                               cond |-> cond(idx[k])]]

-----------------------------------------------------------------------------
IdleProc == [pc |-> "idle", req |-> NoRoute, snap |-> None, todo |-> {},
             syncErr |-> FALSE, requeue |-> FALSE, msg |-> None,
             cur |-> NoRoute, readGen |-> 0, pending |-> <<>>, tries |-> 0,
             statusErr |-> FALSE]

\* A new process: the informers' initial list enqueues every existing
\* route, and Start runs syncAndUpdateStatus as soon as the manager starts
\* the runnable.
InitialQueue == [c \in Controllers |-> {r \in RoutesOf(c) : route[r] # Absent}]
InitialProcs == [p \in Procs |->
                    IF p[2] = "startup" THEN [IdleProc EXCEPT !.pc = "lock"]
                    ELSE IdleProc]

\* NewPingoraRouteSyncer: syncMu free, no connection, version counter 0.
FreshSyncer == [syncMu |-> None, conn |-> None, version |-> 0]

\* What Connect resolves now: the class's parametersRef, the one
\* PingoraConfig it may name, and the Secrets.
Resolved == ResolveFromGatewayClassName(ClassRef, [n \in {ClassRef.name} |-> config],
                                        Secrets)
CanConnect == ConnectSucceeds(ClassRef, [n \in {ClassRef.name} |-> config], Secrets)

\* The address SyncAllRoutes talks to: the open connection's, or (when
\* !IsConnected) the one Connect opens.
SyncAddress == IF conn # None THEN conn ELSE Resolved.address

Init ==
    /\ route \in [Routes -> RouteSpecs \cup {Absent}]
    /\ gen = [r \in Routes |-> 1]
    /\ gateway \in [Gateways -> GatewaySpecs \cup {Absent}]
    /\ config \in ConfigSpecs
    /\ status = [r \in Routes |-> <<>>]
    /\ queue = InitialQueue
    /\ delayed = [c \in Controllers |-> {}]
    /\ started = [c \in Controllers |-> FALSE]
    /\ syncMu = FreshSyncer.syncMu
    /\ conn = FreshSyncer.conn
    /\ version = FreshSyncer.version
    /\ proxyTable = [a \in Addresses |-> [r \in Routes |-> NoRoute]]
    /\ proxyVersion = [a \in Addresses |-> 0]
    /\ proc = InitialProcs
    /\ edits = 0
    /\ failures = 0
    /\ restarts = 0

-----------------------------------------------------------------------------
(* Reconcile (HTTP: part_015 290-319, gRPC: part_016 67-96).              *)

Worker(c) == <<c, "worker">>

\* startupComplete is false: RequeueAfter startupPendingRequeueDelay.
ReconcileBeforeStartup(c, r) ==
    /\ proc[Worker(c)].pc = "idle"
    /\ r \in queue[c]
    /\ ~started[c]
    /\ queue' = [queue EXCEPT ![c] = @ \ {r}]
    /\ delayed' = [delayed EXCEPT ![c] = @ \cup {r}]
    /\ UNCHANGED <<cluster, status, started, syncer, proxy, proc, edits,
                   failures, restarts>>

\* Get fails with an error other than NotFound: the error requeues.
ReconcileGetFailed(c, r) ==
    /\ ReadCanFail
    /\ proc[Worker(c)].pc = "idle"
    /\ r \in queue[c]
    /\ started[c]
    /\ queue' = [queue EXCEPT ![c] = @ \ {r}]
    /\ delayed' = [delayed EXCEPT ![c] = @ \cup {r}]
    /\ UNCHANGED <<cluster, status, started, syncer, proxy, proc, edits,
                   failures, restarts>>

\* The route exists but isRouteForOurGateway is false: return, no sync.
ReconcileNotOurs(c, r) ==
    /\ proc[Worker(c)].pc = "idle"
    /\ r \in queue[c]
    /\ started[c]
    /\ route[r] # Absent
    /\ ~IsRouteAcceptedByGateway(r)
    /\ queue' = [queue EXCEPT ![c] = @ \ {r}]
    /\ UNCHANGED <<cluster, status, delayed, started, syncer, proxy, proc,
                   edits, failures, restarts>>

\* The route is gone (full sync) or accepted (sync): syncAndUpdateStatus.
ReconcileSync(c, r) ==
    /\ proc[Worker(c)].pc = "idle"
    /\ r \in queue[c]
    /\ started[c]
    /\ route[r] = Absent \/ IsRouteAcceptedByGateway(r)
    /\ queue' = [queue EXCEPT ![c] = @ \ {r}]
    /\ proc' = [proc EXCEPT ![Worker(c)] =
                    [IdleProc EXCEPT !.pc = "lock", !.req = r]]
    /\ UNCHANGED <<cluster, status, delayed, started, syncer, proxy, edits,
                   failures, restarts>>

-----------------------------------------------------------------------------
(* SyncAllRoutes (part_016 528-670).  Taking syncMu, connecting, listing, *)
(* building and sending happen under the mutex; the reply releases it.    *)

\* The status phase that follows SyncAllRoutes in syncAndUpdateStatus.
AfterSync(p, snap, todo, syncErr, requeue) ==
    [proc[p] EXCEPT !.pc = "status", !.snap = snap, !.todo = todo,
                    !.syncErr = syncErr, !.requeue = requeue, !.msg = None]

\* Not connected and Connect fails (the config does not resolve or the
\* TLS setup fails): RequeueAfter, no SyncResult.
SyncConnectFailed(p) ==
    /\ proc[p].pc = "lock"
    /\ syncMu = None
    /\ conn = None
    /\ ~CanConnect
    /\ proc' = [proc EXCEPT ![p] = AfterSync(p, None, {}, FALSE, TRUE)]
    /\ UNCHANGED <<cluster, status, queue, delayed, started, syncer, proxy,
                   edits, failures, restarts>>

\* Listing routes fails: an error with an empty Result, no SyncResult.
SyncListFailed(p) ==
    /\ ReadCanFail
    /\ proc[p].pc = "lock"
    /\ syncMu = None
    /\ conn # None \/ CanConnect
    /\ conn' = SyncAddress
    /\ proc' = [proc EXCEPT ![p] = AfterSync(p, None, {}, TRUE, FALSE)]
    /\ UNCHANGED <<cluster, status, queue, delayed, started, syncMu, version,
                   proxy, edits, failures, restarts>>

\* Mutant of SyncPush: the push is not serialised by syncMu.
SyncPushNoLock(p) ==
    /\ proc[p].pc = "lock"
    /\ conn # None \/ CanConnect
    /\ syncMu' = p
    /\ conn' = SyncAddress
    /\ version' = version + 1
    /\ proc' = [proc EXCEPT ![p] =
                  [@ EXCEPT !.pc = "rpc",
                            !.snap = [bind |-> SnapshotBindings,
                                      routes |-> {r \in Routes :
                                                    IsRouteAcceptedByGateway(r)}],
                            !.msg = [addr |-> SyncAddress,
                                     version |-> version + 1,
                                     table |-> DesiredTable]]]
    /\ UNCHANGED <<cluster, status, queue, delayed, started, proxy, edits,
                   failures, restarts>>

\* Mutant of SyncPush: the request carries the counter read before the
\* increment (Load, then Add).
SyncPushStaleVersion(p) ==
    /\ proc[p].pc = "lock"
    /\ syncMu = None
    /\ conn # None \/ CanConnect
    /\ syncMu' = p
    /\ conn' = SyncAddress
    /\ version' = version + 1
    /\ proc' = [proc EXCEPT ![p] =
                  [@ EXCEPT !.pc = "rpc",
                            !.snap = [bind |-> SnapshotBindings,
                                      routes |-> {r \in Routes :
                                                    IsRouteAcceptedByGateway(r)}],
                            !.msg = [addr |-> SyncAddress,
                                     version |-> version,
                                     table |-> DesiredTable]]]
    /\ UNCHANGED <<cluster, status, queue, delayed, started, proxy, edits,
                   failures, restarts>>

\* Connected (or Connect succeeds): snapshot, version.Add(1), UpdateRoutes.
SyncPush(p) ==
    /\ proc[p].pc = "lock"
    /\ syncMu = None
    /\ conn # None \/ CanConnect
    /\ syncMu' = p
    /\ conn' = SyncAddress
    /\ version' = version + 1
    /\ proc' = [proc EXCEPT ![p] =
                  [@ EXCEPT !.pc = "rpc",
                            !.snap = [bind |-> SnapshotBindings,
                                      routes |-> {r \in Routes :
                                                    IsRouteAcceptedByGateway(r)}],
                            !.msg = [addr |-> SyncAddress,
                                     version |-> version + 1,
                                     table |-> DesiredTable]]]
    /\ UNCHANGED <<cluster, status, queue, delayed, started, proxy, edits,
                   failures, restarts>>

\* The routes of p's own kind in the snapshot get their status written.
OwnSnapshot(p) == {r \in proc[p].snap.routes : ControllerOf(r) = p[1]}

\* The proxy at the message's address swaps in its table and version.
Deliver(msg) ==
    /\ proxyTable' = [proxyTable EXCEPT ![msg.addr] = msg.table]
    /\ proxyVersion' = [proxyVersion EXCEPT ![msg.addr] = msg.version]

\* The proxy swaps its table and replies success with appliedVersion.
PushApplied(p) ==
    /\ proc[p].pc = "rpc"
    /\ Deliver(proc[p].msg)
    /\ syncMu' = None
    /\ proc' = [proc EXCEPT ![p] =
                  AfterSync(p, proc[p].snap, OwnSnapshot(p), FALSE, FALSE)]
    /\ UNCHANGED <<cluster, status, queue, delayed, started, conn, version,
                   edits, failures, restarts>>

\* The proxy replies success=false: error, RequeueAfter; the connection
\* is kept.
PushRejected(p) ==
    /\ proc[p].pc = "rpc"
    /\ failures < MaxFailures
    /\ failures' = failures + 1
    /\ syncMu' = None
    /\ proc' = [proc EXCEPT ![p] =
                  AfterSync(p, proc[p].snap, OwnSnapshot(p), TRUE, TRUE)]
    /\ UNCHANGED <<cluster, status, queue, delayed, started, conn, version,
                   proxy, edits, restarts>>

\* The RPC returns an error; the request may or may not have been applied.
\* The connection is closed so the next sync reconnects.
PushError(p) ==
    /\ proc[p].pc = "rpc"
    /\ failures < MaxFailures
    /\ failures' = failures + 1
    /\ \/ UNCHANGED proxy
       \/ Deliver(proc[p].msg)
    /\ conn' = None
    /\ syncMu' = None
    /\ proc' = [proc EXCEPT ![p] =
                  AfterSync(p, proc[p].snap, OwnSnapshot(p), TRUE, TRUE)]
    /\ UNCHANGED <<cluster, status, queue, delayed, started, version, edits,
                   restarts>>

-----------------------------------------------------------------------------
(* updateRouteStatus under retry.RetryOnConflict (HTTP: part_015 363-460, *)
(* gRPC: part_016 140-237), one route of the snapshot at a time.          *)

\* Get a fresh copy and rebuild status.parents; a failed Get is an error
\* that RetryOnConflict does not retry.
StatusGet(p, r) ==
    /\ proc[p].pc = "status"
    /\ IF proc[p].cur = NoRoute THEN r \in proc[p].todo ELSE r = proc[p].cur
    /\ proc' = [proc EXCEPT ![p] =
                  IF route[r] = Absent
                  THEN [@ EXCEPT !.todo = @ \ {r}, !.cur = NoRoute,
                                 !.tries = 0, !.statusErr = TRUE]
                  ELSE [@ EXCEPT !.pc = "put", !.cur = r, !.readGen = gen[r],
                                 !.pending = ParentStatus(route[r],
                                                          proc[p].snap.bind[r],
                                                          proc[p].syncErr)]]
    /\ UNCHANGED <<cluster, status, queue, delayed, started, syncer, proxy,
                   edits, failures, restarts>>

\* Status().Update succeeds.
StatusPutOK(p) ==
    LET r == proc[p].cur IN
    /\ proc[p].pc = "put"
    /\ route[r] # Absent
    /\ gen[r] = proc[p].readGen
    /\ status' = [status EXCEPT ![r] = proc[p].pending]
    /\ proc' = [proc EXCEPT ![p] = [@ EXCEPT !.pc = "status", !.cur = NoRoute,
                                     !.todo = @ \ {r}, !.tries = 0,
                                     !.pending = <<>>, !.readGen = 0]]
    /\ UNCHANGED <<cluster, queue, delayed, started, syncer, proxy, edits,
                   failures, restarts>>

\* Mutant of StatusPutFailed: conflicts are retried without a budget.
StatusPutFailedUnbounded(p) ==
    LET r == proc[p].cur IN
    /\ proc[p].pc = "put"
    /\ route[r] = Absent \/ gen[r] # proc[p].readGen
    /\ proc' = [proc EXCEPT ![p] =
                  IF route[r] # Absent
                  THEN [@ EXCEPT !.pc = "status", !.tries = @ + 1,
                                 !.pending = <<>>, !.readGen = 0]
                  ELSE [@ EXCEPT !.pc = "status", !.cur = NoRoute,
                                 !.todo = @ \ {r}, !.tries = 0,
                                 !.pending = <<>>, !.readGen = 0,
                                 !.statusErr = TRUE]]
    /\ UNCHANGED <<cluster, status, queue, delayed, started, syncer, proxy,
                   edits, failures, restarts>>

\* Status().Update conflicts (the route changed since the Get) or the route
\* is gone: retry a conflict within the budget, else give up with an error.
StatusPutFailed(p) ==
    LET r == proc[p].cur IN
    /\ proc[p].pc = "put"
    /\ route[r] = Absent \/ gen[r] # proc[p].readGen
    /\ proc' = [proc EXCEPT ![p] =
                  IF route[r] # Absent /\ @.tries < RetryBudget
                  THEN [@ EXCEPT !.pc = "status", !.tries = @ + 1,
                                 !.pending = <<>>, !.readGen = 0]
                  ELSE [@ EXCEPT !.pc = "status", !.cur = NoRoute,
                                 !.todo = @ \ {r}, !.tries = 0,
                                 !.pending = <<>>, !.readGen = 0,
                                 !.statusErr = TRUE]]
    /\ UNCHANGED <<cluster, status, queue, delayed, started, syncer, proxy,
                   edits, failures, restarts>>

-----------------------------------------------------------------------------
(* The end of syncAndUpdateStatus, returned to the work queue (Reconcile) *)
(* or discarded with startupComplete set (Start).                          *)

\* Mutant of Requeued: the RequeueAfter of a failed push is dropped and
\* only a status error requeues.
RequeuedOnStatusErrorOnly(pr) ==
    ~(pr.syncErr /\ ~pr.requeue) /\ pr.statusErr

\* A sync error with no RequeueAfter is swallowed; otherwise a status
\* error or a RequeueAfter puts the request back.
Requeued(pr) == ~(pr.syncErr /\ ~pr.requeue) /\ (pr.statusErr \/ pr.requeue)

FinishReconcile(c) ==
    LET pr == proc[Worker(c)] IN
    /\ pr.pc = "status"
    /\ pr.todo = {}
    /\ pr.cur = NoRoute
    /\ delayed' = [delayed EXCEPT ![c] =
                     IF Requeued(pr) THEN @ \cup {pr.req} ELSE @]
    /\ proc' = [proc EXCEPT ![Worker(c)] = IdleProc]
    /\ UNCHANGED <<cluster, status, queue, started, syncer, proxy, edits,
                   failures, restarts>>

\* Start: defer startupComplete.Store(true); the result is ignored.
FinishStartup(c) ==
    LET pr == proc[<<c, "startup">>] IN
    /\ pr.pc = "status"
    /\ pr.todo = {}
    /\ pr.cur = NoRoute
    /\ started' = [started EXCEPT ![c] = TRUE]
    /\ proc' = [proc EXCEPT ![<<c, "startup">>] = [IdleProc EXCEPT !.pc = "done"]]
    /\ UNCHANGED <<cluster, status, queue, delayed, syncer, proxy, edits,
                   failures, restarts>>

\* A RequeueAfter or backoff delay expires.
RequeueFires(c, r) ==
    /\ r \in delayed[c]
    /\ delayed' = [delayed EXCEPT ![c] = @ \ {r}]
    /\ queue' = [queue EXCEPT ![c] = @ \cup {r}]
    /\ UNCHANGED <<cluster, status, started, syncer, proxy, proc, edits,
                   failures, restarts>>

-----------------------------------------------------------------------------
(* The cluster changes, and the watches that turn a change into requests. *)

Enqueue(rs) == [c \in Controllers |-> queue[c] \cup (rs \cap RoutesOf(c))]

\* A route is created or its spec changes (GenerationChangedPredicate).
EditRoute(r, s) ==
    /\ edits < MaxEdits
    /\ route[r] # s
    /\ route' = [route EXCEPT ![r] = s]
    /\ gen' = [gen EXCEPT ![r] = @ + 1]
    /\ edits' = edits + 1
    /\ queue' = Enqueue({r})
    /\ UNCHANGED <<gateway, config, status, delayed, started, syncer, proxy,
                   proc, failures, restarts>>

\* A route is deleted; its status goes with it.
DeleteRoute(r) ==
    /\ edits < MaxEdits
    /\ route[r] # Absent
    /\ route' = [route EXCEPT ![r] = Absent]
    /\ status' = [status EXCEPT ![r] = <<>>]
    /\ edits' = edits + 1
    /\ queue' = Enqueue({r})
    /\ UNCHANGED <<gen, gateway, config, delayed, started, syncer, proxy,
                   proc, failures, restarts>>

\* findRoutesForGateway (mappers.go FindRoutesForGateway): for a Gateway of
\* our class, every route with a parentRef of that name.
RoutesForGateway(gs, g) ==
    IF gs # Absent /\ gs.class = "ours"
    THEN {r \in Routes : route[r] # Absent /\
                         \E i \in 1..Len(route[r].parents) :
                            route[r].parents[i] = g}
    ELSE {}

\* A Gateway is created, changed or deleted; the map function runs on the
\* old and on the new object.
EditGateway(g, s) ==
    /\ edits < MaxEdits
    /\ gateway[g] # s
    /\ gateway' = [gateway EXCEPT ![g] = s]
    /\ edits' = edits + 1
    /\ queue' = Enqueue(RoutesForGateway(gateway[g], g) \cup
                        RoutesForGateway(s, g))
    /\ UNCHANGED <<route, gen, config, status, delayed, started, syncer,
                   proxy, proc, failures, restarts>>

\* FilterAcceptedRoutes: the routes with an accepted binding to a Gateway
\* of our class.
FilterAcceptedRoutes == {r \in Routes : IsRouteAcceptedByGateway(r)}

\* The PingoraConfig's spec changes; MapConfigToRequests enqueues
\* getAllRelevantRoutes (FilterAcceptedRoutes).
EditConfig(c) ==
    /\ edits < MaxEdits
    /\ c # config
    /\ config' = c
    /\ edits' = edits + 1
    /\ queue' = Enqueue(FilterAcceptedRoutes)
    /\ UNCHANGED <<route, gen, gateway, status, delayed, started, syncer,
                   proxy, proc, failures, restarts>>

\* The controller process exits (crash, eviction, a lost lease) and Run
\* starts a new one: a new manager, syncer and reconcilers, so queues,
\* startupComplete, the connection and the version counter start afresh.
\* The API server and the proxy keep their state; a push in flight when
\* the process died may or may not have been applied.
Restart ==
    /\ restarts < MaxRestarts
    /\ restarts' = restarts + 1
    /\ \/ UNCHANGED proxy
       \/ /\ syncMu # None
          /\ proc[syncMu].pc = "rpc"
          /\ Deliver(proc[syncMu].msg)
    /\ queue' = InitialQueue
    /\ delayed' = [c \in Controllers |-> {}]
    /\ started' = [c \in Controllers |-> FALSE]
    /\ syncMu' = FreshSyncer.syncMu
    /\ conn' = FreshSyncer.conn
    /\ version' = FreshSyncer.version
    /\ proc' = InitialProcs
    /\ UNCHANGED <<cluster, status, edits, failures>>

-----------------------------------------------------------------------------
Next ==
    \/ \E c \in Controllers, r \in Routes :
          \/ ReconcileBeforeStartup(c, r)
          \/ ReconcileGetFailed(c, r)
          \/ ReconcileNotOurs(c, r)
          \/ ReconcileSync(c, r)
          \/ RequeueFires(c, r)
    \/ \E p \in Procs :
          \/ SyncConnectFailed(p)
          \/ SyncListFailed(p)
          \/ SyncPush(p)
          \/ PushApplied(p)
          \/ PushRejected(p)
          \/ PushError(p)
          \/ StatusPutOK(p)
          \/ StatusPutFailed(p)
          \/ \E r \in Routes : StatusGet(p, r)
    \/ \E c \in Controllers : FinishReconcile(c) \/ FinishStartup(c)
    \/ \E r \in Routes :
          \/ DeleteRoute(r)
          \/ \E s \in RouteSpecs : EditRoute(r, s)
    \/ \E g \in Gateways, s \in GatewaySpecs \cup {Absent} : EditGateway(g, s)
    \/ \E c \in ConfigSpecs : EditConfig(c)
    \/ Restart

Spec == Init /\ [][Next]_vars

\* What the runtime guarantees.  Each controller's worker goroutine takes the
\* next request, a RequeueAfter or backoff timer fires, and a running
\* goroutine takes its next step.  Go's sync.Mutex hands syncMu to a waiter
\* that has waited over 1 ms (starvation mode), which is strong fairness for
\* taking it.  UpdateRoutes is called with the reconcile context and no
\* deadline (the resolved RequestTimeout is never applied), so nothing
\* makes a reply or an error arrive: the replies get no fairness.
GoroutineStep(p) ==
    \/ SyncConnectFailed(p) \/ SyncListFailed(p) \/ SyncPush(p)
    \/ StatusPutOK(p) \/ StatusPutFailed(p) \/ \E r \in Routes : StatusGet(p, r)

Fairness ==
    /\ \A c \in Controllers :
          /\ WF_vars(\E r \in Routes : \/ ReconcileBeforeStartup(c, r)
                                      \/ ReconcileGetFailed(c, r)
                                      \/ ReconcileNotOurs(c, r)
                                      \/ ReconcileSync(c, r))
          /\ WF_vars(FinishReconcile(c) \/ FinishStartup(c))
          /\ \A r \in Routes : WF_vars(RequeueFires(c, r))
    /\ \A p \in Procs : SF_vars(GoroutineStep(p))

FairSpec == Spec /\ Fairness

-----------------------------------------------------------------------------
(* Properties.                                                             *)

PCs == {"idle", "lock", "rpc", "status", "put", "done"}

\* Type invariant; a status write's conflict retries also stay within
\* retry.DefaultRetry's budget (RetryOnConflict gives up rather than loop).
TypeOK ==
    /\ route \in [Routes -> RouteSpecs \cup {Absent}]
    /\ gen \in [Routes -> Nat]
    /\ gateway \in [Gateways -> GatewaySpecs \cup {Absent}]
    /\ config \in ConfigSpecs
    /\ queue \in [Controllers -> SUBSET Routes]
    /\ delayed \in [Controllers -> SUBSET Routes]
    /\ started \in [Controllers -> BOOLEAN]
    /\ syncMu \in Procs \cup {None}
    /\ conn \in Addresses \cup {None}
    /\ version \in Nat
    /\ proxyTable \in [Addresses -> [Routes -> RouteSpecs \cup {NoRoute}]]
    /\ proxyVersion \in [Addresses -> Nat]
    /\ \A p \in Procs :
          /\ proc[p].pc \in PCs
          /\ proc[p].todo \subseteq Routes
          /\ proc[p].tries \in 0..RetryBudget
    /\ edits \in 0..MaxEdits
    /\ failures \in 0..MaxFailures
    /\ restarts \in 0..MaxRestarts

\* No reconcile, no startup sync and no request is pending: the controller
\* has nothing left to do until the cluster changes.
Quiescent ==
    /\ \A c \in Controllers : queue[c] = {} /\ delayed[c] = {}
    /\ \A p \in Procs : proc[p].pc \in {"idle", "done"}

\* I4 / S6: every table a proxy installs carries a higher version than
\* the one it replaces, however the two reconcilers' syncs interleave.
AppliedVersionIncreases ==
    [][\A a \in Addresses :
          <<proxyTable[a], proxyVersion[a]>> # <<proxyTable'[a], proxyVersion'[a]>>
              => proxyVersion'[a] > proxyVersion[a]]_proxy

\* Once the controller is quiescent, every route that a Gateway of our
\* class accepts is in the proxy's table with its current spec: failed
\* pushes, dropped connections and early reconciles are all retried.
NoAcceptedRouteMissingWhenIdle ==
    Quiescent /\ ~Resolved.err =>
        \A r \in Routes :
            IsRouteAcceptedByGateway(r) =>
                proxyTable[Resolved.address][r] = route[r]

\* Once quiescent, the proxy holds no route that is no longer accepted
\* (a route rejected after being pushed is withdrawn).
NoStaleRouteWhenIdle ==
    Quiescent /\ ~Resolved.err =>
        \A r \in Routes : proxyTable[Resolved.address][r] = DesiredTable[r]

\* The status a route should show (I3, P5): exactly one entry per
\* qualifying parentRef, each Accepted or rejected by that parent's own
\* binding result.
StatusIsExpected(r) ==
    LET s == route[r]
        q == {i \in 1..Len(s.parents) : Qualifies(s, i)}
        entry(i) == LET b == ValidateBinding(gateway[s.parents[i]], s) IN
                    [ref |-> s.parents[i],
                     cond |-> IF b.accepted THEN "Accepted" ELSE b.reason]
    IN /\ Len(status[r]) = Cardinality(q)
       /\ {status[r][k] : k \in 1..Len(status[r])} = {entry(i) : i \in q}

\* Once quiescent, every accepted route's status.parents is the one its
\* current spec and Gateways call for, even when specs changed while the
\* status was being written.
AcceptedStatusCurrentWhenIdle ==
    Quiescent =>
        \A r \in Routes :
            IsRouteAcceptedByGateway(r) => StatusIsExpected(r)

\* Liveness: a goroutine that waits for syncMu (a reconcile or a startup
\* sync entering SyncAllRoutes) eventually gets past it, so the four
\* goroutines sharing the syncer never all wait on one UpdateRoutes call.
LockEventuallyAcquired ==
    \A p \in Procs : proc[p].pc = "lock" ~> proc[p].pc # "lock"

\* The pushes in flight: the messages of goroutines awaiting UpdateRoutes.
InFlight == {proc[p].msg : p \in {q \in Procs : proc[q].pc = "rpc"}}

PC == INSTANCE ProxyChannel
        WITH Tables <- [Routes -> RouteSpecs \cup {NoRoute}],
             EmptyTable <- [r \in Routes |-> NoRoute],
             sent <- version, inFlight <- InFlight,
             installed <- proxyTable, installedAt <- proxyVersion

\* Refinement: within one process the syncer is the serial push channel of
\* ProxyChannel.  Each SyncPush takes the next version while no other
\* push is in flight.  Each reply, failure or crash-free error leaves the
\* proxy with exactly the table and version pushed, or with what it had,
\* however the four goroutines interleave.
ImplementsProxyChannel == PC!Spec

=============================================================================
