---------------------------- MODULE RouteBinding ----------------------------
(***************************************************************************)
(* The route binding evaluator of internal/routebinding: ValidateBinding, *)
(* the listener walk of findMatchingListeners, and the three gates of     *)
(* listenerAcceptsRoute (hostname, namespace, kind), as operators.         *)
(*                                                                         *)
(* A listener is a record                                                  *)
(*   [name, hostname, protocol, from, selector, kinds]                     *)
(* where from is "unset" when allowedRoutes, allowedRoutes.namespaces or  *)
(* namespaces.from is nil (getNamespaceFrom treats the three alike),      *)
(* selector is NilSelector, InvalidSelector or the set of "key=value"     *)
(* pairs of its matchLabels, and kinds is the allowedRoutes.kinds list of *)
(* [kind, group] records, group "" standing for a nil or empty group.     *)
(* A route is the RouteInfo record [ns, hostnames, kind, section], with   *)
(* section = NoSection for a nil SectionName.  An operation that returns  *)
(* (value, error) returns a record with a Boolean err field.              *)
(***************************************************************************)
EXTENDS Naturals, Sequences, SequencesExt

CONSTANTS
    Labels, CaseFold, MaxLabels, MaxRouteHosts, NoHostname, \* HostnameMatch
    NoSection,        \* RouteInfo.SectionName == nil
    NilSelector,      \* namespaces.selector == nil
    InvalidSelector,  \* a selector LabelSelectorAsSelector rejects
    NsLabels,         \* labels of each Namespace object that exists
    ListenerSpecs,    \* listeners a Gateway may declare
    RouteInfos,       \* RouteInfo values to evaluate
    GatewayNamespace, \* namespace of the Gateway
    MaxListeners      \* longest listener list considered

HM == INSTANCE HostnameMatch WITH listener <- NoHostname, routeHosts <- <<>>

GatewayGroup == "gateway.networking.k8s.io"

Ok(b) == [err |-> FALSE, ok |-> b]
Err == [err |-> TRUE, ok |-> FALSE]

-----------------------------------------------------------------------------
(* kind.go                                                                 *)

RGK(k) == [kind |-> k, group |-> GatewayGroup]

\* getDefaultKindsForProtocol: an unknown protocol gets the HTTP defaults.
getDefaultKindsForProtocol(protocol) ==
    CASE protocol \in {"HTTP", "HTTPS"} -> <<RGK("HTTPRoute"), RGK("GRPCRoute")>>
      [] protocol = "TLS" -> <<RGK("TLSRoute")>>
      [] protocol = "TCP" -> <<RGK("TCPRoute")>>
      [] protocol = "UDP" -> <<RGK("UDPRoute")>>
      [] OTHER -> <<RGK("HTTPRoute"), RGK("GRPCRoute")>>

\* getAllowedKinds: a non-empty allowedRoutes.kinds is taken verbatim.
getAllowedKinds(l) ==
    IF l.kinds # <<>> THEN l.kinds ELSE getDefaultKindsForProtocol(l.protocol)

\* kindMatches: equal Kind, and the entry's group (nil or "" meaning the
\* Gateway API group) is the Gateway API group.
kindMatches(allowed, routeKind) ==
    /\ allowed.kind = routeKind
    /\ (IF allowed.group = "" THEN GatewayGroup ELSE allowed.group) = GatewayGroup

IsRouteKindAllowed(l, routeKind) ==
    LET kinds == getAllowedKinds(l) IN
    \E i \in 1..Len(kinds) : kindMatches(kinds[i], routeKind)

-----------------------------------------------------------------------------
(* binding.go: the namespace gate                                          *)

getNamespaceFrom(l) == IF l.from = "unset" THEN "Same" ELSE l.from

\* namespaceMatchesSelector: a nil selector denies, an invalid one is an
\* error, a Namespace that cannot be read denies without error.
namespaceMatchesSelector(l, routeNamespace) ==
    CASE l.selector = NilSelector -> Ok(FALSE)
      [] l.selector = InvalidSelector -> Err
      [] routeNamespace \notin DOMAIN NsLabels -> Ok(FALSE)
      [] OTHER -> Ok(l.selector \subseteq NsLabels[routeNamespace])

IsNamespaceAllowed(l, gatewayNamespace, routeNamespace) ==
    CASE getNamespaceFrom(l) = "All" -> Ok(TRUE)
      [] getNamespaceFrom(l) = "Selector" -> namespaceMatchesSelector(l, routeNamespace)
      [] getNamespaceFrom(l) = "None" -> Ok(FALSE)
      [] OTHER -> Ok(gatewayNamespace = routeNamespace)

-----------------------------------------------------------------------------
(* binding.go: the listener walk                                           *)

\* listenerAcceptsRoute: hostname, then namespace (whose error propagates),
\* then kind; the reason, or err.
listenerAcceptsRoute(l, gatewayNamespace, r) ==
    LET ns == IsNamespaceAllowed(l, gatewayNamespace, r.ns) IN
    CASE ~HM!HostnamesIntersect(l.hostname, r.hostnames) ->
            [err |-> FALSE, reason |-> "NoMatchingListenerHostname"]
      [] ns.err -> [err |-> TRUE, reason |-> ""]
      [] ~ns.ok \/ ~IsRouteKindAllowed(l, r.kind) ->
            [err |-> FALSE, reason |-> "NotAllowedByListeners"]
      [] OTHER -> [err |-> FALSE, reason |-> "Accepted"]

\* The for loop of findMatchingListeners from listener i on: skip another
\* section, stop on an error, else collect the name or the last reason.
RECURSIVE scanListeners(_, _, _, _)
scanListeners(gw, r, i, acc) ==
    IF i > Len(gw.listeners) \/ acc.err THEN acc
    ELSE LET l == gw.listeners[i]
             res == listenerAcceptsRoute(l, gw.ns, r)
         IN CASE r.section # NoSection /\ r.section # l.name ->
                    scanListeners(gw, r, i + 1, acc)
              [] res.err -> [acc EXCEPT !.err = TRUE]
              [] res.reason = "Accepted" ->
                    scanListeners(gw, r, i + 1,
                                  [acc EXCEPT !.matched = Append(@, l.name)])
              [] OTHER ->
                    scanListeners(gw, r, i + 1, [acc EXCEPT !.last = res.reason])

\* Mutant of findMatchingListeners: a route naming a section gets the last
\* listener's reason instead of NoMatchingParent.
findMatchingListenersSectionReason(gw, r) ==
    LET acc == scanListeners(gw, r, 1, [err |-> FALSE, matched |-> <<>>, last |-> ""])
    IN CASE gw.listeners = <<>> ->
              [err |-> FALSE, matched |-> <<>>, reason |-> "NoMatchingParent"]
         [] acc.err -> [err |-> TRUE, matched |-> <<>>, reason |-> ""]
         [] acc.matched # <<>> -> [err |-> FALSE, matched |-> acc.matched, reason |-> ""]
         [] acc.last = "" -> [err |-> FALSE, matched |-> <<>>, reason |-> "NoMatchingParent"]
         [] OTHER -> [err |-> FALSE, matched |-> <<>>, reason |-> acc.last]

\* findMatchingListeners: no listeners, or nothing matched with a section
\* name set or no reason recorded, is NoMatchingParent.
findMatchingListeners(gw, r) ==
    LET acc == scanListeners(gw, r, 1, [err |-> FALSE, matched |-> <<>>, last |-> ""])
    IN CASE gw.listeners = <<>> ->
              [err |-> FALSE, matched |-> <<>>, reason |-> "NoMatchingParent"]
         [] acc.err -> [err |-> TRUE, matched |-> <<>>, reason |-> ""]
         [] acc.matched # <<>> -> [err |-> FALSE, matched |-> acc.matched, reason |-> ""]
         [] r.section # NoSection \/ acc.last = "" ->
              [err |-> FALSE, matched |-> <<>>, reason |-> "NoMatchingParent"]
         [] OTHER -> [err |-> FALSE, matched |-> <<>>, reason |-> acc.last]

\* ValidateBinding: the BindingResult (message left out), or err.
ValidateBinding(gw, r) ==
    LET f == findMatchingListeners(gw, r) IN
    [err |-> f.err,
     accepted |-> ~f.err /\ f.matched # <<>>,
     reason |-> IF f.matched # <<>> THEN "Accepted" ELSE f.reason,
     matched |-> f.matched]

-----------------------------------------------------------------------------
(***************************************************************************)
(* Spec 4.2-4.5 stated directly over the listener indices, without the   *)
(* walk: which listeners are eligible, which pass all three gates, and    *)
(* which would raise the selector error.                                   *)
(***************************************************************************)
SpecDefaultKinds ==
    ("TLS" :> "TLSRoute") @@ ("TCP" :> "TCPRoute") @@ ("UDP" :> "UDPRoute")

SpecKindOK(l, k) ==
    IF l.kinds = <<>>
    THEN IF l.protocol \in DOMAIN SpecDefaultKinds
         THEN k = SpecDefaultKinds[l.protocol]
         ELSE k \in {"HTTPRoute", "GRPCRoute"}
    ELSE \E e \in ToSet(l.kinds) : e.kind = k /\ e.group \in {"", GatewayGroup}

SpecNamespaceOK(l, ns) ==
    CASE l.from \in {"unset", "Same"} -> ns = GatewayNamespace
      [] l.from = "All" -> TRUE
      [] l.from = "None" -> FALSE
      [] l.from = "Selector" ->
            /\ l.selector \notin {NilSelector, InvalidSelector}
            /\ ns \in DOMAIN NsLabels
            /\ l.selector \subseteq NsLabels[ns]

SpecBinding(gw, r) ==
    LET L == gw.listeners
        Eligible == {i \in 1..Len(L) : r.section \in {NoSection, L[i].name}}
        HostOK(i) == HM!HostnamesIntersect(L[i].hostname, r.hostnames)
        Failing == {i \in Eligible : HostOK(i) /\ L[i].from = "Selector"
                                     /\ L[i].selector = InvalidSelector}
        Passing == {i \in Eligible : HostOK(i) /\ SpecNamespaceOK(L[i], r.ns)
                                     /\ SpecKindOK(L[i], r.kind)}
        Names == SetToSortSeq(Passing, <)
    IN CASE Failing # {} ->
              [err |-> TRUE, accepted |-> FALSE, reason |-> "", matched |-> <<>>]
         [] Passing # {} ->
              [err |-> FALSE, accepted |-> TRUE, reason |-> "Accepted",
               matched |-> [k \in DOMAIN Names |-> L[Names[k]].name]]
         [] OTHER ->
              [err |-> FALSE, accepted |-> FALSE, matched |-> <<>>,
               reason |-> CASE r.section # NoSection \/ Eligible = {} -> "NoMatchingParent"
                            [] HostOK(Max(Eligible)) -> "NotAllowedByListeners"
                            [] OTHER -> "NoMatchingListenerHostname"]

-----------------------------------------------------------------------------
(* Every Gateway listener list / RouteInfo pair is one state.              *)
VARIABLES listeners, routeInfo

vars == <<listeners, routeInfo>>

\* Listener names are unique within a Gateway (a CRD validation rule).
ListenerLists ==
    {s \in BoundedSeq(ListenerSpecs, MaxListeners) :
        \A i, j \in 1..Len(s) : i # j => s[i].name # s[j].name}

Init ==
    /\ listeners \in ListenerLists
    /\ routeInfo \in RouteInfos

Next == UNCHANGED vars

Spec == Init /\ [][Next]_vars

Gateway == [ns |-> GatewayNamespace, listeners |-> listeners]

\* Spec 4.5: ValidateBinding's walk, early returns and reason bookkeeping
\* give exactly the result the spec defines over the listener set: the
\* matched listeners in declaration order, the reason of the last eligible
\* listener, NoMatchingParent for a section name or no listeners, and an
\* invalid selector surfacing as an error only behind a matching hostname.
ValidateBindingMeetsSpec ==
    ValidateBinding(Gateway, routeInfo) = SpecBinding(Gateway, routeInfo)

=============================================================================
