CONSTANTS
    Labels <- MCLabels
    CaseFold <- MCCaseFold
    MaxLabels = 2
    MaxRouteHosts = 1
    NoHostname = NoHostname
    NoSection = NoSection
    NilSelector = NilSelector
    InvalidSelector = InvalidSelector
    NsLabels <- MCNsLabels
    GatewayNamespace = "gw-ns"
    ClassName = "ours"
    Gateways = {"gw1"}
    GatewaySpecs <- MCGatewaySpecs
    Routes = {"r1", "r2"}
    RouteKind <- MCRouteKind
    RouteSpecs <- MCRouteSpecs
    EditableRoutes = {"r1"}
    ClassRefs <- MCClassRefs
    ConfigNames = {"pc"}
    ConfigSpecs <- MCConfigSpecs
    DefaultNamespace = "ctrl-ns"
    SecretKeys <- MCSecretKeys
    SecretData <- MCSecretData
    EditableSecrets = {}
    Absent = Absent
    NoRef = NoRef
    NoKind = NoKind
    NoNamespace = NoNamespace
    MaxEdits = 2
    RetryBudget = 1
    ReadCanFail = FALSE
SPECIFICATION Spec
INVARIANT AttachedRoutesCurrentWhenIdle
CHECK_DEADLOCK FALSE
