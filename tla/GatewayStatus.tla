--------------------------- MODULE GatewayStatus ---------------------------
(***************************************************************************)
(* The Gateway reconciler of internal/controller/doc.go together with the *)
(* PingoraConfig resolver of internal/config it calls (PingoraResolver),  *)
(* and the API server objects both read, as environment.                   *)
(*                                                                         *)
(* One worker (MaxConcurrentReconciles = 1) serves a deduplicating queue. *)
(* Watches: every Gateway event (For, no predicate), GatewayClass events  *)
(* through gatewayClassToGateways, and PingoraConfig events through       *)
(* MapConfigToRequests; routes and Secrets are not watched.  A status     *)
(* write is a Get and an Update under RetryOnConflict.  Every write sets  *)
(* LastTransitionTime = now, so it changes the object, and so produces a  *)
(* Gateway event, unless the content is equal and stamped this second:    *)
(* stampCurrent[g] records the latter and Tick is a second passing.       *)
(***************************************************************************)
EXTENDS Naturals, FiniteSets, Sequences, SequencesExt, PingoraResolver

CONSTANTS
    Labels, CaseFold, MaxLabels, MaxRouteHosts, NoHostname,  \* HostnameMatch
    NoSection, NilSelector, InvalidSelector, NsLabels,       \* RouteBinding
    GatewayNamespace, \* namespace of every Gateway
    ClassName,        \* the GatewayClass this controller serves
    Gateways,         \* Gateway names
    GatewaySpecs,     \* [class, listeners, deleting] values of a Gateway
    Routes,           \* route names
    RouteKind,        \* HTTPRoute or GRPCRoute, per route
    RouteSpecs,       \* [ns, hostnames, parents] values of a route
    EditableRoutes,   \* routes the environment changes
    ClassRefs,        \* GatewayClass.spec.parametersRef values (NoRef: nil)
    ConfigNames,      \* PingoraConfig names
    ConfigSpecs,      \* [address, tls] values of a PingoraConfig
    SecretKeys,       \* [name, ns] of Secrets that may exist
    EditableSecrets,  \* Secrets the environment creates and deletes
    NoKind, NoNamespace,
    MaxEdits,         \* bound on environment changes
    RetryBudget,      \* retry.DefaultRetry steps after the first attempt
    ReadCanFail       \* whether cache List/Get calls may fail

RB == INSTANCE RouteBinding
        WITH ListenerSpecs <- {}, RouteInfos <- {}, MaxListeners <- 0,
             listeners <- <<>>, routeInfo <- NoSection

Kinds == {"HTTPRoute", "GRPCRoute"}

-----------------------------------------------------------------------------
(* doc.go: counting attached routes                                        *)

\* Mutant of refMatchesGateway: the namespace is not compared.
refMatchesGatewayNameOnly(ref, g, routeNamespace) == ref.name = g

\* refMatchesGateway: same name, and the ref's namespace, defaulting to the
\* route's, is the Gateway's.  The ref's kind is not looked at.
refMatchesGateway(ref, g, routeNamespace) ==
    /\ ref.name = g
    /\ (IF ref.ns = NoNamespace THEN routeNamespace ELSE ref.ns) = GatewayNamespace

\* (route, parentRef index) pairs of the routes that exist.
ParentRefs(routesNow) ==
    UNION {{<<r, i>> : i \in DOMAIN routesNow[r].parents} :
              r \in {x \in Routes : routesNow[x] # Absent}}

\* The RouteInfo ValidateBinding gets for parentRef i of route r.
RouteInfoOf(routesNow, r, i) ==
    [ns |-> routesNow[r].ns, hostnames |-> routesNow[r].hostnames,
     kind |-> RouteKind[r], section |-> routesNow[r].parents[i].section]

GatewayOf(gs) == [ns |-> GatewayNamespace, listeners |-> gs.listeners]

ListenerNames(gs) == {gs.listeners[k].name : k \in DOMAIN gs.listeners}

\* countAttachedRoutes: a zero per listener, then one per matched listener
\* of every accepted binding of a matching ref, over the kinds whose List
\* succeeded (a failed List is logged and skipped).
countAttachedRoutes(g, gs, routesNow, listed) ==
    LET Bound == {p \in ParentRefs(routesNow) :
                    /\ RouteKind[p[1]] \in listed
                    /\ refMatchesGateway(routesNow[p[1]].parents[p[2]], g,
                                         routesNow[p[1]].ns)}
        Result(p) == RB!ValidateBinding(GatewayOf(gs), RouteInfoOf(routesNow, p[1], p[2]))
    IN [n \in ListenerNames(gs) |->
          Cardinality({p \in Bound : ~Result(p).err /\ Result(p).accepted
                                     /\ n \in ToSet(Result(p).matched)})]

-----------------------------------------------------------------------------
VARIABLES
    gateway,      \* Gateway objects: a spec, or Absent
    gwRev,        \* resourceVersion of each Gateway, bumped by spec edits
    route,        \* route objects: a spec, or Absent
    classRef,     \* our GatewayClass's parametersRef, Absent: no class
    config,       \* PingoraConfig objects
    secrets,      \* Secrets that exist
    gwStatus,     \* [cond, address, attached] status of each Gateway
    stampCurrent, \* the status's LastTransitionTime is this second
    queue,        \* the work queue
    delayed,      \* requests waiting on RequeueAfter or the rate limiter
    worker,       \* the reconcile goroutine
    edits         \* environment changes so far

vars == <<gateway, gwRev, route, classRef, config, secrets, gwStatus,
          stampCurrent, queue, delayed, worker, edits>>

envVars == <<gateway, gwRev, route, classRef, config, secrets, edits>>

NoStatus == [cond |-> "None", address |-> "", attached |-> <<>>]

IdleWorker == [pc |-> "idle", g |-> NoRef, path |-> "update", address |-> "",
               rev |-> 0, new |-> NoStatus, tries |-> 0]

Resolved == ResolveFromGatewayClassName(classRef, config, secrets)

Ours(g) == gateway[g] # Absent /\ gateway[g].class = ClassName

\* getAllGatewaysForClass: a failed List yields no requests.
AllGatewaysForClass ==
    IF ReadCanFail THEN {{g \in Gateways : Ours(g)}, {}}
    ELSE {{g \in Gateways : Ours(g)}}

Init ==
    /\ gateway \in [Gateways -> GatewaySpecs \cup {Absent}]
    /\ gwRev = [g \in Gateways |-> 0]
    /\ route \in [Routes -> RouteSpecs \cup {Absent}]
    /\ classRef \in ClassRefs
    /\ config \in [ConfigNames -> ConfigSpecs \cup {Absent}]
    /\ secrets \in SUBSET SecretKeys
    /\ gwStatus = [g \in Gateways |-> NoStatus]
    /\ stampCurrent = [g \in Gateways |-> FALSE]
    /\ queue = {g \in Gateways : gateway[g] # Absent}
    /\ delayed = {}
    /\ worker = IdleWorker
    /\ edits = 0

-----------------------------------------------------------------------------
(* PingoraGatewayReconciler.Reconcile                                      *)

\* Mutant of Reconcile: a config that does not resolve returns before
\* setConfigErrorStatus is called.
ReconcileNoConfigErrorStatus ==
    /\ worker.pc = "idle"
    /\ \E g \in queue :
        /\ queue' = queue \ {g}
        /\ CASE ~Ours(g) -> UNCHANGED <<worker, delayed>>
             [] Resolved.err -> delayed' = delayed \cup {g} /\ UNCHANGED worker
             [] gateway[g].deleting -> UNCHANGED <<worker, delayed>>
             [] OTHER -> /\ worker' = [IdleWorker EXCEPT !.pc = "get", !.g = g,
                                         !.address = Resolved.address]
                         /\ UNCHANGED delayed
    /\ UNCHANGED <<envVars, gwStatus, stampCurrent>>

\* Reconcile: NotFound or another class is done; a config that does not
\* resolve goes to setConfigErrorStatus; a Gateway being deleted is done;
\* otherwise updateStatus with the resolved address.
Reconcile ==
    /\ worker.pc = "idle"
    /\ \E g \in queue :
        /\ queue' = queue \ {g}
        /\ CASE ~Ours(g) -> UNCHANGED worker
             [] Resolved.err ->
                  worker' = [IdleWorker EXCEPT !.pc = "get", !.g = g, !.path = "configError"]
             [] gateway[g].deleting -> UNCHANGED worker
             [] OTHER -> worker' = [IdleWorker EXCEPT !.pc = "get", !.g = g,
                                      !.address = Resolved.address]
    /\ UNCHANGED <<envVars, gwStatus, stampCurrent, delayed>>

\* The RetryOnConflict body up to the Update: Get the fresh Gateway and
\* build the status.  updateStatus rewrites conditions, address and
\* listeners; setConfigErrorStatus only the conditions.  A Get error ends
\* the reconcile: updateStatus's error is requeued with backoff, and
\* setConfigErrorStatus's is logged before RequeueAfter.
StatusGet ==
    LET g == worker.g IN
    /\ worker.pc = "get"
    /\ IF gateway[g] = Absent
       THEN /\ worker' = IdleWorker
            /\ delayed' = delayed \cup {g}
       ELSE /\ \E listed \in IF ReadCanFail THEN SUBSET Kinds ELSE {Kinds} :
                 worker' = [worker EXCEPT
                     !.pc = "put", !.rev = gwRev[g],
                     !.new = IF worker.path = "configError"
                             THEN [gwStatus[g] EXCEPT !.cond = "InvalidParameters"]
                             ELSE [cond |-> "Accepted", address |-> worker.address,
                                   attached |-> countAttachedRoutes(g, gateway[g], route, listed)]]
            /\ UNCHANGED delayed
    /\ UNCHANGED <<envVars, gwStatus, stampCurrent, queue>>

\* Mutant of StatusPutOK: every write is an event, even one that leaves
\* the status as it was (LastTransitionTime with sub-second precision).
StatusPutOKAlwaysEvent ==
    LET g == worker.g IN
    /\ worker.pc = "put"
    /\ gateway[g] # Absent
    /\ gwRev[g] = worker.rev
    /\ gwStatus' = [gwStatus EXCEPT ![g] = worker.new]
    /\ stampCurrent' = [stampCurrent EXCEPT ![g] = TRUE]
    /\ queue' = queue \cup {g}
    /\ delayed' = IF worker.path = "configError" THEN delayed \cup {g} ELSE delayed
    /\ worker' = IdleWorker
    /\ UNCHANGED envVars

\* Status().Update succeeds: the write is an event for the Gateway unless
\* it changed nothing.  setConfigErrorStatus is followed by RequeueAfter.
StatusPutOK ==
    LET g == worker.g IN
    /\ worker.pc = "put"
    /\ gateway[g] # Absent
    /\ gwRev[g] = worker.rev
    /\ gwStatus' = [gwStatus EXCEPT ![g] = worker.new]
    /\ stampCurrent' = [stampCurrent EXCEPT ![g] = TRUE]
    /\ queue' = IF worker.new = gwStatus[g] /\ stampCurrent[g]
                THEN queue ELSE queue \cup {g}
    /\ delayed' = IF worker.path = "configError" THEN delayed \cup {g} ELSE delayed
    /\ worker' = IdleWorker
    /\ UNCHANGED envVars

\* Mutant of StatusPutFailed: conflicts are retried without a budget.
StatusPutFailedUnbounded ==
    LET g == worker.g IN
    /\ worker.pc = "put"
    /\ gateway[g] = Absent \/ gwRev[g] # worker.rev
    /\ IF gateway[g] # Absent
       THEN /\ worker' = [worker EXCEPT !.pc = "get", !.tries = @ + 1]
            /\ UNCHANGED delayed
       ELSE /\ worker' = IdleWorker
            /\ delayed' = delayed \cup {g}
    /\ UNCHANGED <<envVars, gwStatus, stampCurrent, queue>>

\* Status().Update fails: a conflict is retried with a fresh Get while the
\* budget lasts; a deleted Gateway, or a conflict past the budget, ends the
\* reconcile with a requeue.
StatusPutFailed ==
    LET g == worker.g IN
    /\ worker.pc = "put"
    /\ gateway[g] = Absent \/ gwRev[g] # worker.rev
    /\ IF gateway[g] # Absent /\ worker.tries < RetryBudget
       THEN /\ worker' = [worker EXCEPT !.pc = "get", !.tries = @ + 1]
            /\ UNCHANGED delayed
       ELSE /\ worker' = IdleWorker
            /\ delayed' = delayed \cup {g}
    /\ UNCHANGED <<envVars, gwStatus, stampCurrent, queue>>

\* A RequeueAfter or backoff timer fires.
RequeueFires ==
    /\ \E g \in delayed :
        /\ delayed' = delayed \ {g}
        /\ queue' = queue \cup {g}
    /\ UNCHANGED <<envVars, gwStatus, stampCurrent, worker>>

\* A second passes: metav1.Now() now differs from every stamp.
Tick ==
    /\ \E g \in Gateways : stampCurrent[g]
    /\ stampCurrent' = [g \in Gateways |-> FALSE]
    /\ UNCHANGED <<envVars, gwStatus, queue, delayed, worker>>

-----------------------------------------------------------------------------
(* The API server, as environment.  Each change enqueues what the watches *)
(* of SetupWithManager enqueue for it.                                     *)

\* MapConfigToRequests(getAllGatewaysForClass): only a PingoraConfig that
\* our GatewayClass's parametersRef names maps to the class's Gateways; a
\* failed Get of the class maps to nothing.
MapConfigToRequests(c) ==
    IF /\ classRef \notin {Absent, NoRef}
       /\ classRef.group = ParamsGroup /\ classRef.kind = ParamsKind
       /\ classRef.name = c
    THEN AllGatewaysForClass \cup (IF ReadCanFail THEN {{}} ELSE {})
    ELSE {{}}

\* A Gateway is created, changed, marked for deletion or deleted; its
\* status goes with the object.
EditGateway ==
    /\ edits < MaxEdits
    /\ \E g \in Gateways, s \in GatewaySpecs \cup {Absent} :
        /\ s # gateway[g]
        /\ gateway' = [gateway EXCEPT ![g] = s]
        /\ gwRev' = [gwRev EXCEPT ![g] = @ + 1]
        /\ gwStatus' = IF s = Absent THEN [gwStatus EXCEPT ![g] = NoStatus] ELSE gwStatus
        /\ queue' = queue \cup {g}
    /\ edits' = edits + 1
    /\ UNCHANGED <<route, classRef, config, secrets, stampCurrent, delayed, worker>>

\* A route changes; nothing of the Gateway controller watches routes.
EditRoute ==
    /\ edits < MaxEdits
    /\ \E r \in EditableRoutes, s \in RouteSpecs \cup {Absent} :
        /\ s # route[r]
        /\ route' = [route EXCEPT ![r] = s]
    /\ edits' = edits + 1
    /\ UNCHANGED <<gateway, gwRev, classRef, config, secrets, gwStatus,
                   stampCurrent, queue, delayed, worker>>

\* Our GatewayClass's parametersRef changes: gatewayClassToGateways.
EditGatewayClass ==
    /\ edits < MaxEdits
    /\ \E ref \in ClassRefs \ {classRef}, reqs \in AllGatewaysForClass :
        /\ classRef' = ref
        /\ queue' = queue \cup reqs
    /\ edits' = edits + 1
    /\ UNCHANGED <<gateway, gwRev, route, config, secrets, gwStatus,
                   stampCurrent, delayed, worker>>

\* A PingoraConfig is created, changed or deleted.
EditConfig ==
    /\ edits < MaxEdits
    /\ \E c \in ConfigNames, s \in ConfigSpecs \cup {Absent} :
        /\ s # config[c]
        /\ config' = [config EXCEPT ![c] = s]
        /\ \E reqs \in MapConfigToRequests(c) : queue' = queue \cup reqs
    /\ edits' = edits + 1
    /\ UNCHANGED <<gateway, gwRev, route, classRef, secrets, gwStatus,
                   stampCurrent, delayed, worker>>

\* A Secret is created or deleted; the Gateway controller does not watch
\* Secrets.
EditSecret ==
    /\ edits < MaxEdits
    /\ \E k \in EditableSecrets :
        secrets' = IF k \in secrets THEN secrets \ {k} ELSE secrets \cup {k}
    /\ edits' = edits + 1
    /\ UNCHANGED <<gateway, gwRev, route, classRef, config, gwStatus,
                   stampCurrent, queue, delayed, worker>>

Worker == Reconcile \/ StatusGet \/ StatusPutOK \/ StatusPutFailed

Environment ==
    EditGateway \/ EditRoute \/ EditGatewayClass \/ EditConfig \/ EditSecret

Next == Worker \/ RequeueFires \/ Tick \/ Environment

\* The worker goroutine runs whenever the queue has work, and a delayed
\* request is eventually handed back; edits and the clock are not forced.
Spec == Init /\ [][Next]_vars /\ WF_vars(Worker) /\ WF_vars(RequeueFires)

-----------------------------------------------------------------------------
TypeOK ==
    /\ gwRev \in [Gateways -> 0..MaxEdits]
    /\ queue \subseteq Gateways /\ delayed \subseteq Gateways
    /\ worker.pc \in {"idle", "get", "put"}
    /\ worker.tries \in 0..RetryBudget
    /\ \A g \in Gateways : gwStatus[g].cond \in {"None", "Accepted", "InvalidParameters"}

Quiescent == queue = {} /\ delayed = {} /\ worker.pc = "idle"

\* A Gateway of our class that is not being deleted.
Live(g) == Ours(g) /\ ~gateway[g].deleting

\* Spec P4: the parentRefs that bind to Gateway g, read from the spec: the
\* ref's kind is Gateway (nil defaults to it), its name is g and its
\* namespace (the route's when unset) is the Gateway's; per listener, the
\* number of those whose BindingResult is accepted and matches it.
SpecAttached(g) ==
    LET Refs == {p \in ParentRefs(route) :
                   LET ref == route[p[1]].parents[p[2]] IN
                   /\ ref.kind \in {NoKind, "Gateway"} /\ ref.name = g
                   /\ ref.ns \in {NoNamespace, GatewayNamespace}
                   /\ ref.ns = NoNamespace => route[p[1]].ns = GatewayNamespace}
        Binding(p) == RB!ValidateBinding(GatewayOf(gateway[g]),
                                         RouteInfoOf(route, p[1], p[2]))
    IN [n \in ListenerNames(gateway[g]) |->
          Cardinality({p \in Refs : Binding(p).accepted /\ n \in ToSet(Binding(p).matched)})]

\* Spec P4 (4.8 path B): once the reconciler has nothing left to do, every
\* live Gateway's listener statuses carry the number of parentRefs that
\* currently bind to each listener, whatever Gateway edits, conflicts and
\* retries came before.
AttachedRoutesCurrentWhenIdle ==
    Quiescent =>
        \A g \in Gateways : Live(g) => gwStatus[g].attached = SpecAttached(g)

StatusMatchesConfig(g) ==
    IF Resolved.err
    THEN gwStatus[g].cond = "InvalidParameters"
    ELSE gwStatus[g].cond = "Accepted" /\ gwStatus[g].address = Resolved.address

\* Spec 4.8 paths A and B: after the cluster stops changing, every live
\* Gateway ends up reporting InvalidParameters exactly when its class's
\* PingoraConfig does not resolve, and Accepted with the proxy address
\* when it does.
ConfigStatusConverges ==
    <>[](\A g \in Gateways : Live(g) => StatusMatchesConfig(g))


\* The status write loop of doc.go:156: every write stamps metav1.Now(), so
\* each write is a Gateway event and the reconciler runs again.  Once the
\* cluster stops changing, the loop dies out unless a second passes in
\* every round: the reconciler ends idle, or keeps only the 30 s retry of
\* a config that does not resolve.
StatusLoopSettles ==
    []<><<Tick>>_vars \/ <>[](Resolved.err \/ Quiescent)

=============================================================================
