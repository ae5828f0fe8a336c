------------------------- MODULE MCGatewayStatus ---------------------------
(***************************************************************************)
(* GatewayStatus for TLC: Gateway gw1 in gw-ns, an HTTPRoute r1 and a      *)
(* GRPCRoute r2, one PingoraConfig "pc" and the TLS Secret it may name.   *)
(***************************************************************************)
EXTENDS GatewayStatus

MCLabels == {"a", "b", "*"}
MCCaseFold == [l \in MCLabels |-> l]
MCNsLabels == [n \in {"gw-ns", "other"} |-> IF n = "gw-ns" THEN {"env=prod"} ELSE {}]

\* l1 serves *.a to routes of gw-ns; l2 serves every hostname to routes of
\* every namespace.
L1 == [name |-> "l1", hostname |-> <<"*", "a">>, protocol |-> "HTTP",
       from |-> "unset", selector |-> NilSelector, kinds |-> <<>>]
L2 == [name |-> "l2", hostname |-> NoHostname, protocol |-> "HTTP",
       from |-> "All", selector |-> NilSelector, kinds |-> <<>>]

\* Ours with both listeners or with l1 only, ours being deleted, and of
\* another class.
MCGatewaySpecs ==
    {[class |-> "ours", listeners |-> <<L1, L2>>, deleting |-> FALSE],
     [class |-> "ours", listeners |-> <<L1>>, deleting |-> FALSE],
     [class |-> "ours", listeners |-> <<L1, L2>>, deleting |-> TRUE],
     [class |-> "other", listeners |-> <<L1, L2>>, deleting |-> FALSE]}

MCRouteKind == [r \in {"r1", "r2"} |-> IF r = "r1" THEN "HTTPRoute" ELSE "GRPCRoute"]

Ref(k, n, ns, sec) == [kind |-> k, name |-> n, ns |-> ns, section |-> sec]

\* b.a from gw-ns under gw1; and from namespace "other", gw1 without a
\* namespace (so other/gw1, not ours) and gw-ns/gw1 section l2.
MCRouteSpecs ==
    {[ns |-> "gw-ns", hostnames |-> <<<<"b", "a">>>>,
      parents |-> <<Ref(NoKind, "gw1", NoNamespace, NoSection)>>],
     [ns |-> "other", hostnames |-> <<>>,
      parents |-> <<Ref(NoKind, "gw1", NoNamespace, NoSection),
                    Ref("Gateway", "gw1", "gw-ns", "l2")>>]}

\* parametersRef: to PingoraConfig pc, to a ConfigMap, nil; or no class.
MCClassRefs ==
    {[group |-> "pingora.k8s.lex.la", kind |-> "PingoraConfig", name |-> "pc"],
     [group |-> "pingora.k8s.lex.la", kind |-> "ConfigMap", name |-> "pc"],
     NoRef, Absent}

\* Plain on addr1; TLS on addr2 with Secret "tls" of the controller's
\* namespace; no address.
MCConfigSpecs ==
    {[address |-> "addr1", tls |-> NoRef],
     [address |-> "addr2", tls |-> [enabled |-> TRUE, secret |-> [name |-> "tls", ns |-> ""]]],
     [address |-> "", tls |-> NoRef]}

MCSecretKeys == {[name |-> "tls", ns |-> "ctrl-ns"]}

\* The TLS Secret holds a valid client certificate and key and no CA.
MCSecretData == [k \in MCSecretKeys |-> [crt |-> "ok", key |-> "ok", ca |-> "none"]]
=============================================================================
