--------------------------- MODULE MCRouteSync -----------------------------
(***************************************************************************)
(* RouteSync instantiated for TLC: route and Gateway specs for the routes *)
(* and Gateways of the cfg, one listener per Gateway, and the RouteBinding *)
(* evaluator.                                                              *)
(***************************************************************************)
EXTENDS RouteSync

\* A Gateway of our class listening on *.a or on b, or one of another class.
MCGatewaySpecs ==
    {[class |-> "ours", listener |-> <<"*", "a">>],
     [class |-> "ours", listener |-> <<"b">>],
     [class |-> "other", listener |-> <<"*", "a">>]}

\* A route on b.a under gw1, and a route on b under gw1 then gw2: with gw1
\* on *.a and gw2 on b, the second is rejected by one parent and accepted
\* by the other.
MCRouteSpecs ==
    {[parents |-> <<"gw1">>, hostnames |-> <<<<"b", "a">>>>],
     [parents |-> <<"gw1", "gw2">>, hostnames |-> <<<<"b">>>>]}

RB == INSTANCE RouteBinding
        WITH Labels <- {"a", "b", "*"},
             CaseFold <- [l \in {"a", "b", "*"} |-> l],
             MaxLabels <- 2, MaxRouteHosts <- 1,
             NoHostname <- "none", NoSection <- "none",
             NilSelector <- "nil", InvalidSelector <- "invalid",
             NsLabels <- <<>>, ListenerSpecs <- {}, RouteInfos <- {},
             GatewayNamespace <- "default", MaxListeners <- 0,
             listeners <- <<>>, routeInfo <- "none"

\* IsRouteAcceptedByGateway / the syncer build a RouteInfo (kind HTTPRoute,
\* the ref's section, here none) and call ValidateBinding on a Gateway whose
\* one HTTP listener has the spec's hostname and default allowedRoutes;
\* route and Gateway share the namespace.
MCValidateBinding(gs, s) ==
    LET b == RB!ValidateBinding(
                [ns |-> "default",
                 listeners |-> <<[name |-> "http", hostname |-> gs.listener,
                                  protocol |-> "HTTP", from |-> "unset",
                                  selector |-> "nil", kinds |-> <<>>]>>],
                [ns |-> "default", hostnames |-> s.hostnames,
                 kind |-> "HTTPRoute", section |-> "none"])
    IN [accepted |-> b.accepted, reason |-> b.reason]

\* The GatewayClass names PingoraConfig "pc"; one TLS Secret exists in
\* the controller's namespace, with a CA that does not parse.
MCClassRef == [group |-> "pingora.k8s.lex.la", kind |-> "PingoraConfig", name |-> "pc"]
MCSecrets == {[name |-> "tls", ns |-> "ctrl-ns"]}
MCSecretData == [k \in MCSecrets |-> [crt |-> "none", key |-> "none", ca |-> "bad"]]

\* The config is a plaintext proxy at p1, or the same proxy with TLS from
\* that Secret, which Connect cannot set up (buildTLSConfig fails).
MCConfigSpecs ==
    {[address |-> "p1", tls |-> NoRef],
     [address |-> "p1", tls |-> [enabled |-> TRUE,
                                 secret |-> [name |-> "tls", ns |-> ""]]]}

\* The config moves the proxy from p1 to p2.
MCMovedConfigSpecs ==
    {[address |-> "p1", tls |-> NoRef], [address |-> "p2", tls |-> NoRef]}

\* At most one fault per behaviour: a failed push or a process restart.
OneFault == failures + restarts <= 1

=============================================================================
