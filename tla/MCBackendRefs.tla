---------------------------- MODULE MCBackendRefs ----------------------------
(***************************************************************************)
(* BackendRefs over two namespaces.  A grant has one from and one to     *)
(* entry; a namespace holds no grant, up to two grants, or a failed List. *)
(* A route has at most two rules, so a cross-namespace backend can sit in *)
(* the first or the second rule; two backendRefs in a rule give ties.     *)
(***************************************************************************)
EXTENDS BackendRefs

GWG == "gateway.networking.k8s.io"

\* No ReferenceGrant anywhere.
MCNoGrants == {<<>>}

\* Grants that allow a → b for s1 (core alias, any name), b → a for s1,
\* and three that fail on one field each (from kind, to group, to name).
G(fk, fns, tg, tn) ==
    [from |-> <<[group |-> GWG, kind |-> fk, ns |-> fns]>>,
     to |-> <<[group |-> tg, kind |-> "Service", name |-> tn]>>]

MCSomeGrantLists ==
    {<<>>, ListError,
     <<G("HTTPRoute", "a", "core", NoName)>>, <<G("HTTPRoute", "b", "", "s1")>>,
     <<G("GRPCRoute", "a", "", NoName)>>, <<G("HTTPRoute", "a", GWG, "s1")>>,
     <<G("HTTPRoute", "a", "", "s2"), G("HTTPRoute", "a", "", "s1")>>}

\* A backendRef of the given kinds and weights.
MCBackendRefs(K, W) == [kind : K, ns : {NoNamespace, "a", "b"}, name : {"s1"}, weight : W]

\* Up to two rules of one backendRef, Service or another kind.
MCRouteSpecs ==
    [ns : {"a", "b"}, rules : BoundedSeq(BoundedSeq(MCBackendRefs({NoKind, "Other"}, {NilWeight}), 1), 2)]

\* As MCRouteSpecs with weights nil, 0 and 2.
MCWeightedRouteSpecs ==
    [ns : {"a", "b"}, rules : BoundedSeq(BoundedSeq(MCBackendRefs({NoKind, "Other"}, {NilWeight, 0, 2}), 1), 2)]

\* Up to two rules of up to two Service backendRefs weighted nil, 0 or 2.
MCWideRouteSpecs ==
    [ns : {"a", "b"}, rules : BoundedSeq(BoundedSeq(MCBackendRefs({NoKind}, {NilWeight, 0, 2}), 2), 2)]

=============================================================================
