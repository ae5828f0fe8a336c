-------------------------- MODULE MCRouteBinding ---------------------------
(***************************************************************************)
(* RouteBinding over Gateways of up to two listeners in namespace "gw-ns". *)
(* Listener hostnames: none or *.a.  Route hostnames: none, b.a or a.      *)
(* Namespace "gw-ns" is labelled env=prod, "other" has no labels and      *)
(* "gone" does not exist.                                                  *)
(*                                                                         *)
(* The same run checks the hostname matcher on its own, over longer names *)
(* (three labels, two route hostnames, an upper-case label): the states   *)
(* of phase "hostnames" enumerate matcher inputs, those of phase "binding" *)
(* ValidateBinding inputs.                                                 *)
(***************************************************************************)
EXTENDS RouteBinding

VARIABLES hmListener, hmRouteHosts, phase

MCLabels == {"a", "b", "*"}
MCCaseFold == [l \in MCLabels |-> l]

MCNsLabels == [n \in {"gw-ns", "other"} |-> IF n = "gw-ns" THEN {"env=prod"} ELSE {}]

\* allowedRoutes.namespaces: from unset, Same, All, None, or Selector with
\* a nil, invalid, empty or env=prod selector.
MCNamespacePolicies ==
    {[from |-> f, selector |-> NilSelector] : f \in {"unset", "Same", "All", "None"}}
    \cup {[from |-> "Selector", selector |-> s] :
            s \in {NilSelector, InvalidSelector, {}, {"env=prod"}}}

\* allowedRoutes.kinds: empty, GRPCRoute with a nil group, HTTPRoute of
\* another group.
MCKindLists ==
    {<<>>, <<[kind |-> "GRPCRoute", group |-> ""]>>,
     <<[kind |-> "HTTPRoute", group |-> "example.com"]>>}

MCListenerSpecs ==
    {[name |-> n, hostname |-> h, protocol |-> p, from |-> np.from,
      selector |-> np.selector, kinds |-> k] :
        n \in {"l1", "l2"}, h \in {NoHostname, <<"*", "a">>},
        p \in {"HTTP", "TLS", "example.com/custom"},
        np \in MCNamespacePolicies, k \in MCKindLists}

MCRouteInfos ==
    [ns : {"gw-ns", "other", "gone"},
     hostnames : {<<>>, <<<<"b", "a">>>>, <<<<"a">>>>},
     kind : {"HTTPRoute", "GRPCRoute"},
     section : {NoSection, "l1", "l2"}]

\* Labels "a" and "B" (folded to "b") and the wildcard label.
HMLabels == {"a", "B", "*"}
HMCaseFold == [l \in HMLabels |-> IF l = "B" THEN "b" ELSE l]

HMC == INSTANCE HostnameMatch
         WITH Labels <- HMLabels, CaseFold <- HMCaseFold, MaxLabels <- 3,
              MaxRouteHosts <- 2, listener <- hmListener,
              routeHosts <- hmRouteHosts

allVars == <<listeners, routeInfo, hmListener, hmRouteHosts, phase>>

MCInit ==
    \/ /\ phase = "hostnames"
       /\ HMC!Init
       /\ listeners = <<>>
       /\ routeInfo = CHOOSE ri \in RouteInfos : TRUE
    \/ /\ phase = "binding"
       /\ Init
       /\ hmListener = NoHostname
       /\ hmRouteHosts = <<>>

MCSpec == MCInit /\ [][UNCHANGED allVars]_allVars

\* P1 of the spec: hostnameMatches gives the same answer when listener and
\* route hostname swap sides (the wildcard branch of either side).
MatchSymmetric == phase = "hostnames" => HMC!MatchSymmetric

\* When at least one side is an exact name, hostnameMatches says yes
\* exactly when the two name sets overlap: case folding, multi-level
\* subdomains, the excluded apex and a non-leftmost "*" all agree.
ExactMatchIsOverlap == phase = "hostnames" => HMC!ExactMatchIsOverlap

=============================================================================
