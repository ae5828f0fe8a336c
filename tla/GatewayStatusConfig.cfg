CONSTANTS
    Labels <- MCLabels
    CaseFold <- MCCaseFold
    MaxLabels = 2
    MaxRouteHosts = 1
    NoHostname = NoHostname
    NoSection = NoSection
    NilSelector = NilSelector
    InvalidSelector = InvalidSelector
    NsLabels <- MCNsLabels
    GatewayNamespace = "gw-ns"
    ClassName = "ours"
    Gateways = {"gw1"}
    GatewaySpecs <- MCGatewaySpecs
    Routes = {}
    RouteKind <- MCRouteKind
    RouteSpecs <- MCRouteSpecs
    EditableRoutes = {}
    ClassRefs <- MCClassRefs
    ConfigNames = {"pc"}
    ConfigSpecs <- MCConfigSpecs
    DefaultNamespace = "ctrl-ns"
    SecretKeys <- MCSecretKeys
    SecretData <- MCSecretData
    EditableSecrets = {}
    Absent = Absent
    NoRef = NoRef
    NoKind = NoKind
    NoNamespace = NoNamespace
    MaxEdits = 3
    RetryBudget = 1
    ReadCanFail = FALSE
SPECIFICATION Spec
PROPERTY ConfigStatusConverges
PROPERTY StatusLoopSettles
CHECK_DEADLOCK FALSE
