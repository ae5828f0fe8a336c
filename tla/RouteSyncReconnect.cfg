CONSTANTS
    HTTPRoutes = {h1}
    GRPCRoutes = {}
    Gateways = {"gw1", "gw2"}
    OtherKindRef = OtherKindRef
    RouteSpecs <- MCRouteSpecs
    GatewaySpecs <- MCGatewaySpecs
    ValidateBinding <- MCValidateBinding
    Absent = Absent
    NoRef = NoRef
    DefaultNamespace = "ctrl-ns"
    SecretData <- MCSecretData
    ClassRef <- MCClassRef
    ConfigSpecs <- MCMovedConfigSpecs
    Secrets <- MCSecrets
    NoRoute = NoRoute
    None = None
    MaxEdits = 2
    MaxFailures = 0
    RetryBudget = 1
    ReadCanFail = FALSE
    MaxRestarts = 0
SPECIFICATION Spec
CHECK_DEADLOCK FALSE
INVARIANT NoAcceptedRouteMissingWhenIdle
