-------------------------- MODULE PingoraResolver --------------------------
(***************************************************************************)
(* The PingoraConfig resolver of internal/config (PingoraResolver) and the *)
(* PingoraConfigSpec accessors of api/v1alpha1 it calls: from the          *)
(* GatewayClass's parametersRef to a resolved config, and from a resolved  *)
(* config to a gRPC connection.  Both the Gateway reconciler and the route *)
(* syncer use it.                                                           *)
(*                                                                         *)
(* A PingoraConfig spec is [address, tls]; tls is NoRef (nil) or           *)
(* [enabled, secret], secret NoRef or a [name, ns] secretRef ("" for no    *)
(* namespace).  The contents of a Secret are abstracted to whether each   *)
(* of tls.crt, tls.key and ca.crt is absent, valid or unparsable.          *)
(***************************************************************************)
CONSTANTS
    DefaultNamespace, \* the controller's namespace (getControllerNamespace)
    SecretData,       \* Secret key -> [crt, key, ca], each "none", "ok" or "bad"
    NoRef,            \* a nil pointer field
    Absent            \* an object that does not exist

ParamsGroup == "pingora.k8s.lex.la"
ParamsKind == "PingoraConfig"

NoTLSData == [crt |-> "none", key |-> "none", ca |-> "none"]
Unresolved == [err |-> TRUE, address |-> "", tls |-> FALSE, data |-> NoTLSData]

\* PingoraConfigSpec.IsTLSEnabled
IsTLSEnabled(c) == c.tls # NoRef /\ c.tls.enabled

\* The key getSecret reads: a secretRef without a namespace looks in the
\* controller's own namespace.
SecretKey(ref) == [name |-> ref.name,
                   ns |-> IF ref.ns = "" THEN DefaultNamespace ELSE ref.ns]

\* getSecret: the Get succeeds when the Secret exists.
getSecret(ref, secretsNow) == SecretKey(ref) \in secretsNow

\* resolveConfig: the address is required; with TLS on, a referenced Secret
\* must exist and its tls.crt, tls.key and ca.crt are loaded when present.
resolveConfig(c, secretsNow) ==
    CASE c.address = "" -> Unresolved
      [] IsTLSEnabled(c) /\ c.tls.secret # NoRef /\ ~getSecret(c.tls.secret, secretsNow) ->
            Unresolved
      [] OTHER ->
            [err |-> FALSE, address |-> c.address, tls |-> IsTLSEnabled(c),
             data |-> IF IsTLSEnabled(c) /\ c.tls.secret # NoRef
                      THEN SecretData[SecretKey(c.tls.secret)]
                      ELSE NoTLSData]

\* ResolveFromGatewayClassName: Get the class, check the parametersRef,
\* Get the PingoraConfig it names, resolve it.
ResolveFromGatewayClassName(ref, configsNow, secretsNow) ==
    CASE ref \in {Absent, NoRef} -> Unresolved
      [] ref.group # ParamsGroup \/ ref.kind # ParamsKind -> Unresolved
      [] configsNow[ref.name] = Absent -> Unresolved
      [] OTHER -> resolveConfig(configsNow[ref.name], secretsNow)

\* buildTLSConfig fails when a client certificate and key are both present
\* and do not form a pair, or when a CA is present and does not parse.
buildTLSConfigFails(resolved) ==
    \/ /\ resolved.data.crt # "none" /\ resolved.data.key # "none"
       /\ "bad" \in {resolved.data.crt, resolved.data.key}
    \/ resolved.data.ca = "bad"

\* CreateGRPCConnection: TLS credentials when enabled (buildTLSConfig may
\* fail), insecure otherwise; grpc.NewClient does not dial, so a
\* well-formed address always yields a connection.
CreateGRPCConnection(resolved) == ~(resolved.tls /\ buildTLSConfigFails(resolved))

\* Connect's two fallible steps: resolve, then create the connection.
ConnectSucceeds(ref, configsNow, secretsNow) ==
    LET resolved == ResolveFromGatewayClassName(ref, configsNow, secretsNow)
    IN ~resolved.err /\ CreateGRPCConnection(resolved)

=============================================================================
