----------------------------- MODULE BackendRefs -----------------------------
(***************************************************************************)
(* The ReferenceGrant validator of internal/referencegrant (IsReferenceAllowed *)
(* and its matchers), the route reconcilers' ReferenceGrant map function   *)
(* (FindRoutesForReferenceGrant over GetCrossNamespaceBackendNamespaces),  *)
(* and the builder's backend for a backendRef (buildBackend): its kind    *)
(* filter, its namespace and its wire weight.  SelectHighestWeightIndex    *)
(* (internal/ingress/weight.go) picks one backendRef of a rule.            *)
(*                                                                         *)
(* A Reference is [group, kind, ns, name].  A grant is [from, to]: from a  *)
(* sequence of [group, kind, ns], to a sequence of [group, kind, name]     *)
(* with name = NoName for a nil name.  The grants List of one namespace    *)
(* is a sequence of grants, or ListError when the List call fails.  A     *)
(* route is [ns, rules], rules a sequence of backendRef sequences, a      *)
(* backendRef [kind, ns, name, weight] with NoKind / NoNamespace /        *)
(* NilWeight for nil.                                                      *)
(***************************************************************************)
EXTENDS Naturals, Sequences, SequencesExt

CONSTANTS
    Namespaces,   \* namespaces routes, Services and grants live in
    NoName,       \* ReferenceGrantTo.Name == nil
    NoKind,       \* BackendRef.Kind == nil
    NoNamespace,  \* BackendRef.Namespace == nil
    NilWeight,    \* BackendRef.Weight == nil
    ListError,    \* the grants List call failed
    GrantLists,   \* the grants one namespace may hold
    RouteSpecs,   \* HTTPRoute specs
    RouteName

GatewayGroup == "gateway.networking.k8s.io"

-----------------------------------------------------------------------------
(* validator.go                                                            *)

matchesFrom(grantFrom, fromRef) ==
    /\ grantFrom.group = fromRef.group
    /\ grantFrom.kind = fromRef.kind
    /\ grantFrom.ns = fromRef.ns

\* matchesTo: the group "core" is the core group ""; a nil name matches any.
matchesTo(grantTo, toRef) ==
    /\ (IF grantTo.group = "core" THEN "" ELSE grantTo.group) = toRef.group
    /\ grantTo.kind = toRef.kind
    /\ grantTo.name \in {NoName, toRef.name}

\* grantAllowsReference: some from entry and some to entry match (the
\* loops break on the first match, which does not change the answer).
grantAllowsReference(grant, fromRef, toRef) ==
    /\ \E i \in 1..Len(grant.from) : matchesFrom(grant.from[i], fromRef)
    /\ \E j \in 1..Len(grant.to) : matchesTo(grant.to[j], toRef)

\* IsReferenceAllowed, given the List result of toRef's namespace.
IsReferenceAllowed(fromRef, toRef, grants) ==
    CASE fromRef.ns = toRef.ns -> [err |-> FALSE, allowed |-> TRUE]
      [] grants = ListError -> [err |-> TRUE, allowed |-> FALSE]
      [] OTHER -> [err |-> FALSE,
                   allowed |-> \E i \in 1..Len(grants) :
                                  grantAllowsReference(grants[i], fromRef, toRef)]

-----------------------------------------------------------------------------
(* mappers.go                                                              *)

\* extractCrossNamespaceBackends: the explicit namespaces other than the
\* route's, each once, in order of first appearance.
extractCrossNamespaceBackends(routeNamespace, refs) ==
    FoldLeft(LAMBDA acc, ref :
                IF ref.ns # NoNamespace /\ ref.ns # routeNamespace
                   /\ ref.ns \notin ToSet(acc)
                THEN Append(acc, ref.ns) ELSE acc,
             <<>>, refs)

\* HTTPRouteWrapper.GetCrossNamespaceBackendNamespaces: the backendRefs of
\* every rule, flattened in order.
GetCrossNamespaceBackendNamespaces(route) ==
    extractCrossNamespaceBackends(route.ns, FlattenSeq(route.rules))

\* FindRoutesForReferenceGrant: the routes (by name) listing the grant's
\* namespace among their cross-namespace backend namespaces.
FindRoutesForReferenceGrant(grantNamespace, routes) ==
    {n \in DOMAIN routes :
        grantNamespace \in ToSet(GetCrossNamespaceBackendNamespaces(routes[n]))}

-----------------------------------------------------------------------------
(* part_013 buildBackend: which Service a backendRef resolves to           *)

\* The wire weight starts at 1 and a weight > 0 replaces it.
builtWeight(w) == IF w # NilWeight /\ w > 0 THEN w ELSE 1

\* Only Service backends are built; a nil namespace is the route's own.
buildBackend(namespace, ref) ==
    IF ref.kind \notin {NoKind, "Service"} THEN NoName
    ELSE [group |-> "", kind |-> "Service",
          ns |-> IF ref.ns = NoNamespace THEN namespace ELSE ref.ns,
          name |-> ref.name, weight |-> builtWeight(ref.weight)]

-----------------------------------------------------------------------------
(* weight.go: a rule's backendRefs as a sequence; Go index i is position  *)
(* i + 1, and -1 stands for none.                                          *)

DefaultBackendWeight == 1

\* The weight of a backendRef, the default standing for nil.
weightOf(ref) == IF ref.weight = NilWeight THEN DefaultBackendWeight ELSE ref.weight

\* Mutant of SelectHighestWeightIndex: >= instead of >, so a tie goes to
\* the last backendRef.
SelectHighestWeightIndexLastTie(refs) ==
    FoldLeftDomain(
        LAMBDA acc, i :
            IF weightOf(refs[i]) = 0 THEN acc
            ELSE IF acc.idx = -1 \/ weightOf(refs[i]) >= acc.highest
                 THEN [idx |-> i - 1, highest |-> weightOf(refs[i])] ELSE acc,
        [idx |-> -1, highest |-> 0], refs).idx

\* SelectHighestWeightIndex: skip weight 0; take a backendRef when none is
\* taken yet or its weight is strictly higher.
SelectHighestWeightIndex(refs) ==
    FoldLeftDomain(
        LAMBDA acc, i :
            IF weightOf(refs[i]) = 0 THEN acc
            ELSE IF acc.idx = -1 \/ weightOf(refs[i]) > acc.highest
                 THEN [idx |-> i - 1, highest |-> weightOf(refs[i])] ELSE acc,
        [idx |-> -1, highest |-> 0], refs).idx

\* Spec 4.6: the earliest-listed backendRef of highest strictly positive
\* weight.
SpecHighestWeightIndex(refs) ==
    LET Pos == {i \in DOMAIN refs : weightOf(refs[i]) > 0}
        Best == {i \in Pos : \A j \in Pos : weightOf(refs[i]) >= weightOf(refs[j])}
    IN IF Pos = {} THEN -1 ELSE Min(Best) - 1

-----------------------------------------------------------------------------
(* One route and the grants of every namespace form one state.  No code  *)
(* outside tests calls IsReferenceAllowed (spec 9), so no property here  *)
(* relates the grants to what the builder emits.                         *)
VARIABLES route, grants

vars == <<route, grants>>

Init ==
    /\ route \in RouteSpecs
    /\ grants \in [Namespaces -> GrantLists]

Next == UNCHANGED vars

Spec == Init /\ [][Next]_vars

\* Spec 4.6: for every rule, the single backend SelectHighestWeightIndex
\* picks is the earliest-listed one of highest strictly positive weight, a
\* nil weight counting as 1, and none when every backendRef has weight 0.
SelectHighestMeetsSpec ==
    \A i \in DOMAIN route.rules :
        SelectHighestWeightIndex(route.rules[i]) = SpecHighestWeightIndex(route.rules[i])

\* Spec 4.6: a backendRef of weight 0 disables its backend: the builder
\* leaves it out or gives it no traffic share.  buildBackend
\* (part_013:298-307) sends it with the default weight 1.
ZeroWeightDisabled ==
    \A ref \in ToSet(FlattenSeq(route.rules)) :
        ref.weight = 0 /\ buildBackend(route.ns, ref) # NoName
        => buildBackend(route.ns, ref).weight = 0

=============================================================================
